---------------------------- MODULE Spec2Model ----------------------------
(***************************************************************************)
(* bossa-web: the NVM programming engine of a SAM-BA flasher.              *)
(*                                                                         *)
(* The model follows the TypeScript sources: the SAM-BA client (samba.ts), *)
(* the word-copy applet (applet.ts, wordcopyapplet.ts), the abstract Flash *)
(* engine (flash.ts) and the two NVM drivers (D2xNvmFlash.ts, D5xNvmFlash).*)
(*                                                                         *)
(* Every async method is a sequence of instructions, one per SAM-BA client *)
(* call (a suspension point) or synchronous statement; a method body is an *)
(* operator that returns that sequence, and the continuation k holds the   *)
(* instructions the running API call has still to execute.                 *)
(***************************************************************************)
EXTENDS Integers, Sequences, FiniteSets, TLC

(* ------------------------------ bounds --------------------------------- *)
\* pages = 2^PagesLog2 (D2x) and 2^(PagesLog2+2) (D5x): two erase granules
PagesLog2 == 3
\* longest run of consecutive successful writePage calls that is counted
MaxRun == 2
\* replies the target withholds or flags with an error during one session
MaxFaults == 1
\* writeOptions calls in one session
MaxFlushes == 1
\* bytes of one reply, and the largest responseSize of a read
MaxReply == 4
\* letters between the bracket of a banner and its end
MaxLetters == 4

(* ------------------------- program constants --------------------------- *)
CMDEX_KEY == 42240
NVM_REG_BASE == 1090535424
D2x_NVM_REG_CTRLA == 0
D2x_NVM_REG_CTRLB == 4
D2x_NVM_REG_INTFLAG == 20
D2x_NVM_REG_STATUS == 24
D2x_NVM_REG_ADDR == 28
D2x_NVM_CTRL_STATUS_MASK == 65515
D2x_NVM_CMD_ER == 2
D2x_NVM_CMD_WP == 4
D2x_NVM_CMD_EAR == 5
D2x_NVM_CMD_WAP == 6
D2x_NVM_CMD_PBC == 68
ERASE_ROW_PAGES == 4
D2x_NVM_CMD_SSB == 69
NVM_UR_ADDR == 8404992
NVM_UR_BOD33_ENABLE_OFFSET == 1
NVM_UR_BOD33_ENABLE_MASK == 6
NVM_UR_BOD33_RESET_OFFSET == 1
NVM_UR_BOD33_RESET_MASK == 7
NVM_UR_NVM_LOCK_OFFSET == 6
D2x_lockRegions == 16
D5x_NVM_REG_CTRLA == 0
D5x_NVM_REG_CTRLB == 4
D5x_NVM_REG_INTFLAG == 16
D5x_NVM_REG_STATUS == 18
D5x_NVM_REG_ADDR == 20
D5x_NVM_CMD_EP == 0
D5x_NVM_CMD_EB == 1
D5x_NVM_CMD_WP == 3
D5x_NVM_CMD_WQW == 4
D5x_NVM_CMD_PBC == 21
ERASE_BLOCK_PAGES == 16
D5x_NVM_CMD_SSB == 22
NVM_UP_ADDR == 8404992
NVM_UP_BOD33_DISABLE_OFFSET == 0
NVM_UP_BOD33_DISABLE_MASK == 1
NVM_UP_BOD33_RESET_OFFSET == 1
NVM_UP_BOD33_RESET_MASK == 2
NVM_UP_NVM_LOCK_OFFSET == 8
D5x_lockRegions == 32
\* new D2xNvmFlash(samba, name, pages, 64, 0x20004000, 0x20008000)
D2x_PageSize == 64
D5x_PageSize == 512
UserAddr == 536887296
StackAddr == 536903680
\* wordcopyapplet.ts: offsets of the parameter cells and the blob's length
applet_dst_addr == 40
applet_reset == 36
applet_src_addr == 44
applet_stack == 32
applet_start == 0
applet_words == 48
applet_code_length == 52

(* ------------------------------ helpers -------------------------------- *)
RECURSIVE Pow2(_)
Pow2(n) == IF n = 0 THEN 1 ELSE 2 * Pow2(n - 1)

\* JavaScript's & and | on non-negative operands below 2^31
RECURSIVE BitAnd(_, _)
BitAnd(x, y) ==
  IF x = 0 \/ y = 0 THEN 0
  ELSE (IF x % 2 = 1 /\ y % 2 = 1 THEN 1 ELSE 0) + 2 * BitAnd(x \div 2, y \div 2)

RECURSIVE BitOr(_, _)
BitOr(x, y) ==
  IF x = 0 THEN y
  ELSE IF y = 0 THEN x
  ELSE (IF x % 2 = 1 \/ y % 2 = 1 THEN 1 ELSE 0) + 2 * BitOr(x \div 2, y \div 2)

HexDigits == <<"0", "1", "2", "3", "4", "5", "6", "7",
               "8", "9", "a", "b", "c", "d", "e", "f">>

\* Number.prototype.toString(16) of a non-negative integer
RECURSIVE toString16(_)
toString16(n) ==
  IF n < 16 THEN <<HexDigits[n + 1]>>
  ELSE toString16(n \div 16) \o <<HexDigits[(n % 16) + 1]>>

RECURSIVE padLeft(_, _)
padLeft(s, digits) == IF Len(s) < digits THEN padLeft(<<"0">> \o s, digits) ELSE s

\* SamBA.hex(value, digits = 8)
hex(value, digits) == padLeft(toString16(value), digits)

\* the command record a client operation hands to sendCommand
Cmd(op, a, v) == [op |-> op, a |-> a, v |-> v]

\* the string each client operation builds for sendCommand
cmdString(c) ==
  CASE c.op = "O" -> <<"O">> \o hex(c.a, 8) \o <<",">> \o hex(c.v, 2)
    [] c.op = "o" -> <<"o">> \o hex(c.a, 8) \o <<",", "4">>
    [] c.op = "W" -> <<"W">> \o hex(c.a, 8) \o <<",">> \o hex(c.v, 8)
    [] c.op = "w" -> <<"w">> \o hex(c.a, 8) \o <<",", "4">>
    [] c.op = "S" -> <<"S">> \o hex(c.a, 8) \o <<",">> \o hex(c.v, 8)
    [] c.op = "G" -> <<"G">> \o hex(c.a, 8)
    [] c.op = "R" -> <<"R">> \o hex(c.a, 8) \o <<",">> \o hex(c.v, 8)
    [] c.op = "X" -> <<"X">> \o hex(c.a, 8)
    [] c.op = "Y0" -> <<"Y">> \o hex(c.a, 8) \o <<",", "0">>
    [] c.op = "Y" -> <<"Y">> \o hex(c.a, 8) \o <<",">> \o hex(c.v, 8)
    [] c.op = "Z" -> <<"Z">> \o hex(c.a, 8) \o <<",">> \o hex(c.v, 8)

\* sendCommand: packet.copy(toByteArray(cmd)); packet.push(0x23)
Packet(c) == cmdString(c) \o <<"#">>

\* packet.reset() and the copy/push write from offset 0 of the one shared
\* _sendCommandBuffer: bytes beyond the new packet keep their old content
Overwrite(buf, pkt) ==
  IF Len(buf) > Len(pkt) THEN pkt \o SubSeq(buf, Len(pkt) + 1, Len(buf)) ELSE pkt

\* one writer.write(): the bytes of a command view, or a binary payload
Frame(txt, bin) == [txt |-> txt, bin |-> bin]

\* an instruction of a method body: kind, two integer operands, a tag
Ins(i, a, v, s) == [i |-> i, a |-> a, v |-> v, s |-> s, n |-> 0]
\* a call of another method of the engine, entered when it is reached
CallIns(f, a, v) == Ins("call", a, v, f)

VARIABLES
  fam,              \* which driver class the session constructed
  canChipErase,     \* SamBA._canChipErase
  canWriteBuffer,   \* SamBA._canWriteBuffer
  exclusiveWriter,  \* the port's writable refuses a second getWriter()
  eraseAuto,        \* Flash._eraseAuto
  onBufferA,        \* Flash._onBufferA
  prepared,         \* Flash._prepared
  installed,        \* Applet._installed
  k,                \* instructions the running call has still to execute
  call,             \* the API call running or last run
  result,           \* "run", "ok" or the error the call raised
  tmp,              \* the value the last read returned (or computed from it)
  sendBuf,          \* content of SamBA._sendCommandBuffer
  pending,          \* view lengths of the writeByte commands still in flight
  sent,             \* frames handed to the serial writer during the call
  overlapped,       \* a sendCommand began while another had not completed
  cmdTrace,         \* ready reads, dispatches, flag reads since command() began
  cmdSt,            \* state of the most recent command() invocation
  er,               \* the most recent erase() invocation
  eraseLog,         \* byte addresses of the erase commands of this call
  target,           \* what the call wrote last to ADDR, the applet cells, a page buffer
  regAccess,        \* an NVM register was read or written during the call
  fault,            \* a reply was missing, flagged an error, or a send failed
  faults,           \* missing or error-flagged replies so far in the session
  steps,            \* the steps of the running call, in the order taken
  hist              \* history across calls

\* the options, the user row and writeOptions' locals
VARIABLES
  bor,              \* Flash._bor: [value, dirty]
  bod,              \* Flash._bod
  regions,          \* Flash._regions
  security,         \* Flash._security
  row,              \* the user row (D5x: user page) in the device
  rowIn,            \* the device's user row when writeOptions began
  userRow,          \* writeOptions' userRow (D5x: userPage)
  rowRead,          \* readUserRow has returned during this writeOptions
  current,          \* the lock bytes getLockRegions has read
  rd                \* one sendCommand that expects a reply: readBuffer's state

\* the connection
VARIABLES
  banner,            \* the bytes the target answers the V command with
  closed,            \* SamBA.closed
  canChecksumBuffer, \* SamBA._canChecksumBuffer
  canProtect,        \* SamBA._canProtect
  readBufferSize     \* SamBA._readBufferSize

\* the identification of the device
VARIABLES
  mem,               \* the words of the target at the addresses create reads
  dev                \* Device: create's position and locals, _family, _flash

\* the content of the flash and an image written to it page by page
VARIABLES
  nvm,               \* the content of every flash page
  job,               \* the image: its first page, its pages, the pages written
  back,              \* the page read back last and the buffer it filled
  u8,                \* a Uint8Buffer: size, _view, readOffset, writeOffset
  io                 \* the serial link: commands, bytes in flight, inputBuffer

options == <<bor, bod, regions, security>>
rowv == <<row, rowIn, userRow, rowRead, current>>
caps == <<banner, closed, canChecksumBuffer, canProtect, readBufferSize>>
probe == <<mem, dev>>
store == <<nvm, job, back, u8, io>>
\* what no step of the SAM-BA client changes
cfg == <<fam, canChipErase, canWriteBuffer, exclusiveWriter, options, rowv, rd, caps, probe, store>>
env == <<fam, canChipErase, canWriteBuffer, exclusiveWriter, options, rowv, rd, caps,
         probe, store, faults>>
vars == <<fam, canChipErase, canWriteBuffer, exclusiveWriter, eraseAuto,
          onBufferA, prepared, installed, k, call, result, tmp, sendBuf,
          pending, sent, overlapped, cmdTrace, cmdSt, er, eraseLog, target,
          regAccess, fault, faults, steps, hist, options, rowv, rd, caps, probe, store>>

(* ----------------------------- geometry -------------------------------- *)
numPages == IF fam = "D2x" THEN Pow2(PagesLog2) ELSE Pow2(PagesLog2 + 2)
pageSize == IF fam = "D2x" THEN D2x_PageSize ELSE D5x_PageSize
totalSize == pageSize * numPages
erasePages == IF fam = "D2x" THEN ERASE_ROW_PAGES ELSE ERASE_BLOCK_PAGES
\* Flash constructor: the page buffers follow the applet, 4-byte aligned
pageBufferA == ((UserAddr + applet_code_length + 3) \div 4) * 4
pageBufferB == pageBufferA + pageSize
\* mutant of the buffer choice: always buffer A
activeBuffer_fixed == pageBufferA
activeBuffer == IF onBufferA THEN pageBufferA ELSE pageBufferB

(* ------------------------------ the user row -------------------------- *)
\* NVM_UR_SIZE / NVM_UP_SIZE
rowSize == IF fam = "D2x" THEN pageSize * ERASE_ROW_PAGES ELSE pageSize
rowAddr == IF fam = "D2x" THEN NVM_UR_ADDR ELSE NVM_UP_ADDR
lockOffset == IF fam = "D2x" THEN NVM_UR_NVM_LOCK_OFFSET ELSE NVM_UP_NVM_LOCK_OFFSET
lockRegions == IF fam = "D2x" THEN D2x_lockRegions ELSE D5x_lockRegions
\* the bytes of the row that are followed one by one: the option bytes, the
\* lock bytes, and offset 64 for every byte that holds no option
OtherOffset == 64
RowOffsets(f) ==
  {0, 1, OtherOffset}
    \cup (IF f = "D2x"
            THEN {NVM_UR_NVM_LOCK_OFFSET + i : i \in 0 .. (D2x_lockRegions \div 8 - 1)}
            ELSE {NVM_UP_NVM_LOCK_OFFSET + i : i \in 0 .. (D5x_lockRegions \div 8 - 1)})
RowAt(img, o) == IF o \in DOMAIN img THEN img[o] ELSE img[OtherOffset]
ZeroRow(f) == [o \in RowOffsets(f) |-> 0]
ErasedRow(f) == [o \in RowOffsets(f) |-> 255]

\* getBor / getBod / getLockRegions applied to a byte of the row
getBor(byte) ==
  IF fam = "D2x" THEN BitAnd(byte, NVM_UR_BOD33_RESET_MASK) # 0
  ELSE BitAnd(byte, NVM_UP_BOD33_RESET_MASK) # 0
getBod(byte) ==
  IF fam = "D2x" THEN BitAnd(byte, NVM_UR_BOD33_ENABLE_MASK) # 0
  ELSE BitAnd(byte, NVM_UP_BOD33_DISABLE_MASK) = 0
borOffset == IF fam = "D2x" THEN NVM_UR_BOD33_RESET_OFFSET ELSE NVM_UP_BOD33_RESET_OFFSET
bodOffset == IF fam = "D2x" THEN NVM_UR_BOD33_ENABLE_OFFSET ELSE NVM_UP_BOD33_DISABLE_OFFSET
\* regions[region] = (lockBits & (1 << (region % 8))) == 0, region from 0
isLocked(bytes, region) ==
  BitAnd(bytes[region \div 8 + 1], Pow2(region % 8)) = 0

\* byte |= mask and byte &= ~mask on an element of a Uint8Array
SetMask(byte, mask) == BitOr(byte, mask)
ClearMask(byte, mask) == byte - BitAnd(byte, mask)

(* ------------------- method bodies: the SAM-BA client ------------------ *)
\* each client method issues one sendCommand; the step that executes the
\* instruction (below) is the whole method
readWord(addr) == <<Ins("readWord", addr, 0, "")>>
writeWord(addr, value, s) == <<Ins("writeWord", addr, value, s)>>
readByte(addr, part) == <<Ins("readByte", addr, 0, part)>>
writeByte(addr, value, s) == <<Ins("writeByte", addr, value, s)>>
\* write(addr, buffer, size): v is the declared size, n the length of buffer
write(addr, size, n) == <<[Ins("write", addr, size, "") EXCEPT !.n = n]>>
go(addr) == <<Ins("go", addr, 0, "")>>
chipErase(start_addr) == <<Ins("chipErase", start_addr, 0, "")>>

\* SamBA.read(addr, buffer, size): one R command per round of the while
\* loop; n is start, the index in buffer the chunk is stored from, which the
\* loop advances once per byte stored and once more by the chunk
RECURSIVE readChunks(_, _, _)
readChunks(addr, start, size) ==
  IF size > 0
    THEN LET chunk == IF readBufferSize > 0 /\ size > readBufferSize
                        THEN readBufferSize ELSE size
         IN <<[Ins("read", addr, chunk, "") EXCEPT !.n = start]>>
              \o readChunks(addr + chunk, start + chunk + chunk, size - chunk)
    ELSE <<>>
IsPow2(n) == BitAnd(n, n - 1) = 0
\* mutant of read: without the single readByte before a power of two
read_whole(addr, size) == readChunks(addr, 0, size)
read(addr, size) ==
  IF readBufferSize = 0 /\ size > 32 /\ IsPow2(size)
    THEN readByte(addr, "lo") \o <<Ins("rowByte", 0, 0, "")>>
           \o readChunks(addr + 1, 1, size - 1)
    ELSE readChunks(addr, 0, size)

(* ----------------------- method bodies: the applet --------------------- *)
\* mutant of checkInstall: the installed flag is not consulted
Applet_checkInstall_always ==
  write(UserAddr, applet_code_length, applet_code_length) \o <<Ins("setInstalled", 0, 0, "")>>
Applet_checkInstall ==
  IF ~installed
    THEN write(UserAddr, applet_code_length, applet_code_length) \o <<Ins("setInstalled", 0, 0, "")>>
    ELSE <<>>

Applet_setStack(stack) ==
  <<CallIns("checkInstall", 0, 0)>> \o writeWord(UserAddr + applet_stack, stack, "const")

Applet_run ==
  <<CallIns("checkInstall", 0, 0)>> \o go(UserAddr + applet_start + 1)

\* runv without the write of the reset vector cell
Applet_runv_noreset ==
  <<CallIns("checkInstall", 0, 0)>> \o go(UserAddr + applet_stack)

Applet_runv ==
  <<CallIns("checkInstall", 0, 0)>>
    \o writeWord(UserAddr + applet_reset, UserAddr + applet_start + 1, "const")
    \o go(UserAddr + applet_stack)

WordCopyApplet_setDstAddr(dstAddr) ==
  <<CallIns("checkInstall", 0, 0)>> \o writeWord(UserAddr + applet_dst_addr, dstAddr, "const")

WordCopyApplet_setSrcAddr(srcAddr) ==
  <<CallIns("checkInstall", 0, 0)>> \o writeWord(UserAddr + applet_src_addr, srcAddr, "const")

WordCopyApplet_setWords(words) ==
  <<CallIns("checkInstall", 0, 0)>> \o writeWord(UserAddr + applet_words, words, "const")

(* --------------------- method bodies: the Flash engine ----------------- *)
\* loadBuffer(data, offset, bufferSize): data.subarray(offset) goes to the
\* active page buffer, declared as bufferSize bytes
Flash_loadBuffer(dataLen, offset, bufferSize) ==
  write(activeBuffer, bufferSize, IF offset > 0 THEN dataLen - offset ELSE dataLen)

Flash_prepareApplet ==
  IF ~prepared
    THEN <<CallIns("setWords", pageSize \div 4, 0), CallIns("setStack", StackAddr, 0),
           Ins("setPrepared", 0, 0, "")>>
    ELSE <<>>

(* ---------------------- method bodies: the options --------------------- *)
\* readUserRow / readUserPage: the buffer has the row's size
readUserRow == read(rowAddr, rowSize) \o <<Ins("readDone", 0, 0, "")>>

\* getLockRegions: one readByte for every eight regions
RECURSIVE getLockBytes(_)
getLockBytes(j) ==
  IF j < lockRegions \div 8
    THEN readByte(rowAddr + lockOffset + j, "lo") \o <<Ins("lockBits", 0, 0, "")>>
           \o getLockBytes(j + 1)
    ELSE <<>>
getLockRegions == getLockBytes(0)

\* if (dirty && get() != await getX()) { readUserRow; set or clear the bits }
borBlock ==
  IF bor.dirty
    THEN readByte(rowAddr + borOffset, "lo") \o <<Ins("ifDiffers", 0, 0, "bor")>>
    ELSE <<>>
bodBlock ==
  IF bod.dirty
    THEN readByte(rowAddr + bodOffset, "lo") \o <<Ins("ifDiffers", 0, 0, "bod")>>
    ELSE <<>>
regionsBlock ==
  IF regions.dirty THEN getLockRegions \o <<Ins("ifDiffers", 0, 0, "regions")>> ELSE <<>>

(* ------------------------- method bodies: D2x -------------------------- *)
D2x_readReg(reg) == readWord(NVM_REG_BASE + reg)
D2x_writeReg(reg, value, s) == writeWord(NVM_REG_BASE + reg, value, s)

\* mutant of waitReady: reads the flag once and goes on
D2x_waitReady_once == D2x_readReg(D2x_NVM_REG_INTFLAG)
\* while (((await this.readReg(NVM_REG_INTFLAG)) & 0x1) == 0);
D2x_waitReady == D2x_readReg(D2x_NVM_REG_INTFLAG) \o <<Ins("waitTest", 0, 1, "")>>

D2x_command(cmd) ==
  <<CallIns("waitReady", 0, 0)>>
    \o D2x_writeReg(D2x_NVM_REG_CTRLA, BitOr(CMDEX_KEY, cmd), "const")
    \o <<CallIns("waitReady", 0, 0)>>
    \o D2x_readReg(D2x_NVM_REG_INTFLAG)
    \o <<Ins("ifAnd", 0, 2, ""), Ins("ret", 0, 0, "command")>>

\* the body of command()'s if: clear the error bit, then throw
D2x_cmdError ==
  D2x_writeReg(D2x_NVM_REG_INTFLAG, 2, "const") \o <<Ins("throw", 0, 0, "FlashCmdError")>>

\* eraseNum < eraseEnd, where eraseEnd = (offset + size + eraseSize - 1) / eraseSize
\* is a JavaScript number division (no truncation): both sides times eraseSize
beforeEraseEnd(eraseNum, end, eraseSize) == eraseNum * eraseSize < end + eraseSize - 1

\* one round of erase()'s for loop, then the loop again; end = offset + size
D2x_eraseLoop(eraseNum, end) ==
  LET eraseSize == pageSize * ERASE_ROW_PAGES IN
  IF beforeEraseEnd(eraseNum, end, eraseSize)
    THEN <<CallIns("waitReady", 0, 0)>>
           \o D2x_readReg(D2x_NVM_REG_STATUS)
           \o <<Ins("or", 0, D2x_NVM_CTRL_STATUS_MASK, "")>>
           \o D2x_writeReg(D2x_NVM_REG_STATUS, 0, "tmp")
           \o D2x_writeReg(D2x_NVM_REG_ADDR, (eraseNum * eraseSize) \div 2, "const")
           \o <<CallIns("command", D2x_NVM_CMD_ER, 0),
                CallIns("eraseLoop", eraseNum + 1, end)>>
    ELSE <<Ins("ret", 0, 0, "erase")>>

\* mutant of erase: the two argument checks are missing
D2x_erase_unchecked(offset, size) ==
  <<CallIns("eraseLoop", offset \div (pageSize * ERASE_ROW_PAGES), offset + size)>>
D2x_erase(offset, size) ==
  LET eraseSize == pageSize * ERASE_ROW_PAGES IN
  IF offset % eraseSize # 0 THEN <<Ins("throw", 0, 0, "FlashEraseError")>>
  ELSE IF offset + size > totalSize THEN <<Ins("throw", 0, 0, "FlashEraseError")>>
  ELSE <<CallIns("eraseLoop", offset \div eraseSize, offset + size)>>

\* mutant of eraseAll: the chip-erase capability is ignored
D2x_eraseAll_rows(offset) == <<CallIns("erase", offset, totalSize - offset)>>
D2x_eraseAll(offset) ==
  IF canChipErase THEN chipErase(offset)
  ELSE <<CallIns("erase", offset, totalSize - offset)>>

\* if (this.eraseAuto && page % ERASE_ROW_PAGES == 0) await this.erase(...)
D2x_autoErase(page) ==
  IF eraseAuto /\ page % ERASE_ROW_PAGES = 0
    THEN <<CallIns("erase", page * pageSize, ERASE_ROW_PAGES * pageSize)>>
    ELSE <<>>

D2x_writePage(page) ==
  IF page >= numPages THEN <<Ins("throw", 0, 0, "FlashPageError")>>
  ELSE D2x_readReg(D2x_NVM_REG_CTRLB)
         \o <<Ins("or", 0, 262272, "")>>
         \o D2x_writeReg(D2x_NVM_REG_CTRLB, 0, "tmp")
         \o <<CallIns("autoErase", page, 0),
              CallIns("command", D2x_NVM_CMD_PBC, 0),
              CallIns("prepareApplet", 0, 0),
              CallIns("setDstAddr", page * pageSize, 0),
              CallIns("setSrcAddr", 0, 1),
              Ins("toggle", 0, 0, ""),
              CallIns("waitReady", 0, 0),
              CallIns("runv", 0, 0)>>
         \o D2x_writeReg(D2x_NVM_REG_ADDR, (page * pageSize) \div 2, "const")
         \o <<CallIns("command", D2x_NVM_CMD_WP, 0)>>

\* the loop of writeOptions over the pages of the user row
RECURSIVE D2x_writeRow(_)
D2x_writeRow(offset) ==
  IF offset < rowSize
    THEN <<[CallIns("loadBuffer", rowSize, pageSize) EXCEPT !.n = offset],
           CallIns("command", D2x_NVM_CMD_PBC, 0),
           CallIns("prepareApplet", 0, 0),
           CallIns("setDstAddr", NVM_UR_ADDR + offset, 0),
           CallIns("setSrcAddr", 0, 1),
           Ins("toggle", 0, 0, ""),
           CallIns("waitReady", 0, 0),
           CallIns("runv", 0, 0)>>
           \o D2x_writeReg(D2x_NVM_REG_ADDR, (NVM_UR_ADDR + offset) \div 2, "const")
           \o <<CallIns("command", D2x_NVM_CMD_WAP, 0), Ins("nvm", offset, pageSize, "write")>>
           \o D2x_writeRow(offset + pageSize)
    ELSE <<>>

\* writeOptions with the security block ahead of the user row
D2x_writeOptions_first ==
  <<Ins("newRow", 0, 0, "")>> \o borBlock \o bodBlock \o regionsBlock
    \o (IF security.dirty /\ security.value = TRUE
          THEN D2x_readReg(D2x_NVM_REG_STATUS)
                 \o <<Ins("ifDiffers", 0, 0, "security")>>
          ELSE <<>>)
    \o D2x_readReg(D2x_NVM_REG_CTRLB)
    \o <<Ins("or", 0, 262272, "")>>
    \o D2x_writeReg(D2x_NVM_REG_CTRLB, 0, "tmp")
    \o D2x_writeReg(D2x_NVM_REG_ADDR, NVM_UR_ADDR \div 2, "const")
    \o <<CallIns("command", D2x_NVM_CMD_EAR, 0), Ins("nvm", 0, 0, "erase")>>
    \o D2x_writeRow(0)

D2x_writeOptions ==
  <<Ins("newRow", 0, 0, "")>> \o borBlock \o bodBlock \o regionsBlock
    \o D2x_readReg(D2x_NVM_REG_CTRLB)
    \o <<Ins("or", 0, 262272, "")>>
    \o D2x_writeReg(D2x_NVM_REG_CTRLB, 0, "tmp")
    \o D2x_writeReg(D2x_NVM_REG_ADDR, NVM_UR_ADDR \div 2, "const")
    \o <<CallIns("command", D2x_NVM_CMD_EAR, 0), Ins("nvm", 0, 0, "erase")>>
    \o D2x_writeRow(0)
    \o (IF security.dirty /\ security.value = TRUE
          THEN D2x_readReg(D2x_NVM_REG_STATUS)
                 \o <<Ins("ifDiffers", 0, 0, "security")>>
          ELSE <<>>)

(* ------------------------- method bodies: D5x -------------------------- *)
D5x_readRegU16(reg) ==
  readByte(NVM_REG_BASE + reg, "lo") \o readByte(NVM_REG_BASE + reg + 1, "hi")

\* both byte writes go to NVM_REG_BASE + reg; s = "tmp" takes the value from tmp
D5x_writeRegU16(reg, value, s) ==
  IF s = "tmp"
    THEN writeByte(NVM_REG_BASE + reg, 0, "tmplo") \o writeByte(NVM_REG_BASE + reg, 0, "tmphi")
    ELSE writeByte(NVM_REG_BASE + reg, BitAnd(value, 255), "const")
           \o writeByte(NVM_REG_BASE + reg, BitAnd(value \div 256, 255), "const")

D5x_writeRegU32(reg, value) == writeWord(NVM_REG_BASE + reg, value, "const")

\* while ((await this.readRegU16(NVM_REG_STATUS) & 0x1) == 0);
D5x_waitReady == D5x_readRegU16(D5x_NVM_REG_STATUS) \o <<Ins("waitTest", 0, 1, "")>>

D5x_command(cmd) ==
  <<CallIns("waitReady", 0, 0)>>
    \o D5x_writeRegU32(D5x_NVM_REG_CTRLB, BitOr(CMDEX_KEY, cmd))
    \o <<CallIns("waitReady", 0, 0)>>
    \o D5x_readRegU16(D5x_NVM_REG_INTFLAG)
    \o <<Ins("ifAnd", 0, 206, ""), Ins("ret", 0, 0, "command")>>

D5x_cmdError ==
  D5x_writeRegU16(D5x_NVM_REG_INTFLAG, 206, "const")
    \o <<Ins("throw", 0, 0, "FlashCmdError")>>

D5x_eraseLoop(eraseNum, end) ==
  LET eraseSize == pageSize * ERASE_BLOCK_PAGES IN
  IF beforeEraseEnd(eraseNum, end, eraseSize)
    THEN D5x_writeRegU32(D5x_NVM_REG_ADDR, eraseNum * eraseSize)
           \o <<CallIns("command", D5x_NVM_CMD_EB, 0),
                CallIns("eraseLoop", eraseNum + 1, end)>>
    ELSE <<Ins("ret", 0, 0, "erase")>>

D5x_erase(offset, size) ==
  LET eraseSize == pageSize * ERASE_BLOCK_PAGES IN
  IF offset % eraseSize # 0 THEN <<Ins("throw", 0, 0, "FlashEraseError")>>
  ELSE IF offset + size > totalSize THEN <<Ins("throw", 0, 0, "FlashEraseError")>>
  ELSE <<CallIns("eraseLoop", offset \div eraseSize, offset + size)>>

D5x_eraseAll(offset) ==
  IF canChipErase THEN chipErase(offset)
  ELSE <<CallIns("erase", offset, totalSize - offset)>>

D5x_autoErase(page) ==
  IF eraseAuto /\ page % ERASE_BLOCK_PAGES = 0
    THEN <<CallIns("erase", page * pageSize, ERASE_BLOCK_PAGES * pageSize)>>
    ELSE <<>>

\* mutant of writePage: the write-page command precedes the applet run
D5x_writePage_late(page) ==
  IF page >= numPages THEN <<Ins("throw", 0, 0, "FlashPageError")>>
  ELSE D5x_readRegU16(D5x_NVM_REG_CTRLA)
         \o <<Ins("or", 0, 49152, ""), Ins("and", 0, 65487, "")>>
         \o D5x_writeRegU16(D5x_NVM_REG_CTRLA, 0, "tmp")
         \o <<CallIns("autoErase", page, 0),
              CallIns("command", D5x_NVM_CMD_PBC, 0),
              CallIns("prepareApplet", 0, 0),
              CallIns("setDstAddr", page * pageSize, 0),
              CallIns("setSrcAddr", 0, 1),
              CallIns("setWords", pageSize \div 4, 0),
              Ins("toggle", 0, 0, ""),
              CallIns("waitReady", 0, 0)>>
         \o D5x_writeRegU32(D5x_NVM_REG_ADDR, (page * pageSize) \div 2)
         \o <<CallIns("command", D5x_NVM_CMD_WP, 0), CallIns("runv", 0, 0)>>
D5x_writePage(page) ==
  IF page >= numPages THEN <<Ins("throw", 0, 0, "FlashPageError")>>
  ELSE D5x_readRegU16(D5x_NVM_REG_CTRLA)
         \o <<Ins("or", 0, 49152, ""), Ins("and", 0, 65487, "")>>
         \o D5x_writeRegU16(D5x_NVM_REG_CTRLA, 0, "tmp")
         \o <<CallIns("autoErase", page, 0),
              CallIns("command", D5x_NVM_CMD_PBC, 0),
              CallIns("prepareApplet", 0, 0),
              CallIns("setDstAddr", page * pageSize, 0),
              CallIns("setSrcAddr", 0, 1),
              CallIns("setWords", pageSize \div 4, 0),
              Ins("toggle", 0, 0, ""),
              CallIns("waitReady", 0, 0),
              CallIns("runv", 0, 0)>>
         \o D5x_writeRegU32(D5x_NVM_REG_ADDR, (page * pageSize) \div 2)
         \o <<CallIns("command", D5x_NVM_CMD_WP, 0)>>

\* the loop of writeOptions: offset advances by the page size
RECURSIVE D5x_writeQuads(_)
D5x_writeQuads(offset) ==
  IF offset < rowSize
    THEN <<[CallIns("loadBuffer", rowSize, 16) EXCEPT !.n = offset],
           CallIns("command", D5x_NVM_CMD_PBC, 0),
           CallIns("prepareApplet", 0, 0),
           CallIns("setDstAddr", NVM_UP_ADDR + offset, 0),
           CallIns("setSrcAddr", 0, 1),
           CallIns("setWords", 4, 0),
           Ins("toggle", 0, 0, ""),
           CallIns("waitReady", 0, 0),
           CallIns("runv", 0, 0)>>
           \o D5x_writeRegU32(D5x_NVM_REG_ADDR, NVM_UP_ADDR + offset)
           \o <<CallIns("command", D5x_NVM_CMD_WQW, 0), Ins("nvm", offset, 16, "write")>>
           \o D5x_writeQuads(offset + pageSize)
    ELSE <<>>

\* D5xNvmFlash.getSecurity
D5x_getSecurity == FALSE

D5x_writeOptions ==
  <<Ins("newRow", 0, 0, "")>> \o borBlock \o bodBlock \o regionsBlock
    \o D5x_readRegU16(D5x_NVM_REG_CTRLA)
    \o <<Ins("or", 0, 49152, ""), Ins("and", 0, 65487, "")>>
    \o D5x_writeRegU16(D5x_NVM_REG_CTRLA, 0, "tmp")
    \o D5x_writeRegU32(D5x_NVM_REG_ADDR, NVM_UP_ADDR)
    \o <<CallIns("command", D5x_NVM_CMD_EP, 0), Ins("nvm", 0, 0, "erase")>>
    \o D5x_writeQuads(0)
    \o (IF security.dirty /\ security.value = TRUE /\ security.value # D5x_getSecurity
          THEN <<CallIns("command", D5x_NVM_CMD_SSB, 0)>>
          ELSE <<>>)

(* ------------------------ the driver in use ---------------------------- *)
waitReady == IF fam = "D2x" THEN D2x_waitReady ELSE D5x_waitReady
command(cmd) == IF fam = "D2x" THEN D2x_command(cmd) ELSE D5x_command(cmd)
cmdError == IF fam = "D2x" THEN D2x_cmdError ELSE D5x_cmdError
erase(offset, size) == IF fam = "D2x" THEN D2x_erase(offset, size) ELSE D5x_erase(offset, size)
eraseLoop(n, end) == IF fam = "D2x" THEN D2x_eraseLoop(n, end) ELSE D5x_eraseLoop(n, end)
eraseAll(offset) == IF fam = "D2x" THEN D2x_eraseAll(offset) ELSE D5x_eraseAll(offset)
autoErase(page) == IF fam = "D2x" THEN D2x_autoErase(page) ELSE D5x_autoErase(page)
writePage(page) == IF fam = "D2x" THEN D2x_writePage(page) ELSE D5x_writePage(page)
writeOptions == IF fam = "D2x" THEN D2x_writeOptions ELSE D5x_writeOptions

\* SamBA.writeBuffer(src_addr, dst_addr, size): 'Y' + hex(src_addr) + ',0',
\* then 'Y' + hex(dst_addr) + ',' + hex(size)
samba_writeBuffer(src_addr, dst_addr, size) ==
  IF ~canWriteBuffer THEN <<Ins("throw", 0, 0, "SamBAError")>>
  ELSE IF size > 4096 THEN <<Ins("throw", 0, 0, "SamBAError")>>
  ELSE <<Ins("Y", src_addr, 0, "Y0"), Ins("Y", dst_addr, size, "Y")>>
\* SamBA.checksumBufferSize()
checksumBufferSize == 4096
\* SamBA.checksumBuffer(start_addr, size): 'Z' + hex(start_addr) + ',' + hex(size)
samba_checksumBuffer(start_addr, size) ==
  IF ~canWriteBuffer THEN <<Ins("throw", 0, 0, "SamBAError")>>
  ELSE IF size > checksumBufferSize THEN <<Ins("throw", 0, 0, "SamBAError")>>
  ELSE <<Ins("Z", start_addr, size, "Z")>>
\* Flash.writeBuffer: from the active page buffer to dst_addr + this._addr,
\* the flash starting at address 0
Flash_writeBuffer(dst_addr, size) == samba_writeBuffer(activeBuffer, dst_addr, size)
\* if (this.eraseAuto) await this.erase(dst_addr, size)
D2x_writeBuffer(dst_addr, size) ==
  (IF eraseAuto THEN <<CallIns("erase", dst_addr, size)>> ELSE <<>>)
    \o <<CallIns("superWriteBuffer", dst_addr, size)>>
\* if (this.eraseAuto && ((dst_addr / this._size) % ERASE_BLOCK_PAGES == 0)):
\* a quotient that is no integer has a remainder that is not 0
D5x_writeBuffer(dst_addr, size) ==
  (IF eraseAuto /\ dst_addr % pageSize = 0
        /\ (dst_addr \div pageSize) % ERASE_BLOCK_PAGES = 0
     THEN <<CallIns("erase", dst_addr, size)>> ELSE <<>>)
    \o <<CallIns("superWriteBuffer", dst_addr, size)>>
writeBuffer(dst_addr, size) ==
  IF fam = "D2x" THEN D2x_writeBuffer(dst_addr, size) ELSE D5x_writeBuffer(dst_addr, size)

(* ------------------------ method bodies: Flasher ----------------------- *)
\* get writeBufferSize() { return 4096; }
writeBufferSize == 4096
\* Math.trunc((fbytes + pageSize - 1) / pageSize) * pageSize
padded(fbytes) == ((fbytes + pageSize - 1) \div pageSize) * pageSize
\* the loop of the buffer-write path: the view of a buffer of bufferSize
\* bytes is loaded, declared as fbytes, and written to foffset + offset
RECURSIVE Flasher_writeBuffers(_, _, _)
Flasher_writeBuffers(remaining, foffset, offset) ==
  IF remaining > 0
    THEN LET taken == IF remaining < writeBufferSize THEN remaining ELSE writeBufferSize
             fbytes == IF taken < writeBufferSize THEN padded(taken) ELSE taken
         IN <<CallIns("loadBuffer", writeBufferSize, fbytes),
              CallIns("writeBuffer", foffset + offset, fbytes)>>
              \o Flasher_writeBuffers(remaining - taken, foffset, offset + fbytes)
    ELSE <<>>
\* the loop of the page path, left when pageNum == numPages
RECURSIVE Flasher_writePages(_, _, _, _)
Flasher_writePages(remaining, pageOffset, pageNum, pages) ==
  IF remaining > 0
    THEN LET taken == IF remaining < pageSize THEN remaining ELSE pageSize
             fbytes == IF taken < pageSize THEN padded(taken) ELSE taken
         IN <<CallIns("loadBuffer", pageSize, fbytes),
              CallIns("writePage", pageOffset + pageNum, 0)>>
              \o (IF pageNum + 1 = pages \/ fbytes # pageSize THEN <<>>
                  ELSE Flasher_writePages(remaining - taken, pageOffset, pageNum + 1, pages))
    ELSE <<>>
\* Flasher.write(data, foffset), fsize = data.byteLength
Flasher_write_body(fsize, foffset) ==
  IF foffset % pageSize # 0 \/ foffset >= totalSize
    THEN <<Ins("throw", 0, 0, "FlashOffsetError")>>
  ELSE IF (fsize + pageSize - 1) \div pageSize > numPages
    THEN <<Ins("throw", 0, 0, "FileSizeError")>>
  ELSE IF canWriteBuffer
    THEN Flasher_writeBuffers(fsize, foffset, 0)
  ELSE Flasher_writePages(fsize, foffset \div pageSize, 0, (fsize + pageSize - 1) \div pageSize)

\* the body of the method a call instruction enters, its arguments evaluated
\* when the call is reached (v = 1 on setSrcAddr: the active page buffer)
Body(ins) ==
  CASE ins.s = "waitReady" -> waitReady
    [] ins.s = "command" -> command(ins.a)
    [] ins.s = "erase" -> erase(ins.a, ins.v)
    [] ins.s = "eraseLoop" -> eraseLoop(ins.a, ins.v)
    [] ins.s = "autoErase" -> autoErase(ins.a)
    [] ins.s = "prepareApplet" -> Flash_prepareApplet
    [] ins.s = "checkInstall" -> Applet_checkInstall
    [] ins.s = "setStack" -> Applet_setStack(ins.a)
    [] ins.s = "runv" -> Applet_runv
    [] ins.s = "run" -> Applet_run
    [] ins.s = "setDstAddr" -> WordCopyApplet_setDstAddr(ins.a)
    [] ins.s = "setSrcAddr" ->
         WordCopyApplet_setSrcAddr(IF ins.v = 1 THEN activeBuffer ELSE ins.a)
    [] ins.s = "setWords" -> WordCopyApplet_setWords(ins.a)
    [] ins.s = "eraseAll" -> eraseAll(ins.a)
    [] ins.s = "writePage" -> writePage(ins.a)
    [] ins.s = "loadBuffer" -> Flash_loadBuffer(ins.a, ins.n, ins.v)
    [] ins.s = "writeOptions" -> writeOptions
    [] ins.s = "writeBuffer" -> writeBuffer(ins.a, ins.v)
    [] ins.s = "write" -> Flasher_write_body(ins.a, ins.v)
    [] ins.s = "superWriteBuffer" -> Flash_writeBuffer(ins.a, ins.v)
    [] ins.s = "chipErase" -> chipErase(ins.a)
    [] ins.s = "checksumBuffer" -> samba_checksumBuffer(ins.a, ins.v)
    [] ins.s = "read" ->
         <<Ins("newRow", 0, 0, "")>> \o read(ins.a, ins.v) \o <<Ins("readDone", 0, 0, "")>>

(* ----------------------------- initial state --------------------------- *)
NoCall == [op |-> "none", a |-> 0, v |-> 0]
NoCmd == [st |-> "none", flags |-> 0]
NoErase == [st |-> "none", off |-> 0, size |-> 0, acc |-> FALSE]
NoTarget ==
  [addr |-> 0, dst |-> 0, src |-> 0, words |-> 0, load |-> 0, size |-> 0, n |-> 0,
   bytes |-> <<>>]
\* the parameter cells of the applet on the target, not yet written
NoCells == [stack |-> 0, reset |-> 0, dst |-> 0, src |-> 0, words |-> 0]
NoHist ==
  [runN |-> 0, flips |-> 0, startA |-> TRUE, sinceRun |-> 0, atRun |-> 1,
   chain |-> 0, lastLoad |-> 0, lastRunSrc |-> 0, uploads |-> 0, touched |-> FALSE,
   flushes |-> 0, cells |-> NoCells, atGo |-> <<>>, callA |-> TRUE]

NoRead == [op |-> "none", size |-> 0, inbox |-> <<>>, reply |-> <<>>, st |-> "idle",
           value |-> <<>>]
\* new FlashOption<T>(value)
NewOption(value) == [value |-> value, dirty |-> FALSE]
\* the user rows a device is taken to hold: BOD and BOR on or off, the
\* first lock region locked or not, 0xa5 in the bytes that hold no option
Rows(f) ==
  {[o \in RowOffsets(f) |->
      IF o \in {0, 1} THEN b ELSE IF o = OtherOffset THEN 165
      ELSE IF o = (IF f = "D2x" THEN NVM_UR_NVM_LOCK_OFFSET ELSE NVM_UP_NVM_LOCK_OFFSET)
        THEN (IF b = 0 THEN 255 ELSE 254) ELSE 255] :
    b \in {0, 255}}

\* the state after new D2xNvmFlash(...) / new D5xNvmFlash(...): Flash
\* constructor, Applet constructor
\* a banner is a sequence of characters; the nine characters "[Arduino:" are
\* written as the one element Marker, "v" is any character without a meaning
Marker == "[Arduino:"

\* no image is being written, no page was read back
NoJob == [st |-> "none", start |-> 0, image |-> <<>>, done |-> 0]
NoBack == [page |-> 0, buf |-> <<>>]

\* new Uint8Buffer(size): the cursors at 0, the bytes zero
BufferSize == 2
NewBuffer == [size |-> BufferSize, view |-> [i \in 1..BufferSize |-> 0],
              readOffset |-> 0, writeOffset |-> 0]

\* no command sent yet, the read loop started
NoIo == [cmd |-> 0, st |-> "idle", size |-> 0, wire |-> <<>>, inputBuffer |-> <<>>,
         reply |-> <<>>, response |-> <<>>]

Fresh ==
  /\ eraseAuto = TRUE
  /\ onBufferA = TRUE
  /\ prepared = FALSE
  /\ installed = FALSE
  /\ k = <<>>
  /\ call = NoCall
  /\ result = "ok"
  /\ tmp = 0
  /\ sendBuf = <<>>
  /\ pending = <<>>
  /\ sent = <<>>
  /\ overlapped = FALSE
  /\ cmdTrace = <<>>
  /\ cmdSt = NoCmd
  /\ er = NoErase
  /\ eraseLog = <<>>
  /\ target = NoTarget
  /\ regAccess = FALSE
  /\ fault = FALSE
  /\ faults = 0
  /\ steps = <<>>
  /\ hist = NoHist
  /\ bor = NewOption(TRUE)
  /\ bod = NewOption(TRUE)
  /\ regions = NewOption(<<>>)
  /\ security = NewOption(TRUE)
  /\ userRow = ZeroRow(fam)
  /\ rowRead = FALSE
  /\ current = <<>>
  /\ rd = NoRead
  /\ nvm = [p \in 0..(numPages - 1) |-> "old"]
  /\ job = NoJob
  /\ back = NoBack
  /\ u8 = NewBuffer
  /\ io = NoIo

\* the addresses Device.create reads
A_RESET == "0x0"
A_VEC4 == "0x4"
A_CHIPID7 == "0xfffff240"
A_CPUID == "0xe000ed00"
A_DSU == "0x41002018"
A_CHIPID == "0x400e0740"
A_EXID == "0x400e0744"
A_CHIPID2 == "0x400e0940"
A_EXID2 == "0x400e0944"
UniqueIdAddrs == <<"0x0080a00c", "0x0080a040", "0x0080a044", "0x0080a048">>
Addrs ==
  {A_RESET, A_VEC4, A_CHIPID7, A_CPUID, A_DSU, A_CHIPID, A_EXID, A_CHIPID2, A_EXID2}
    \cup {UniqueIdAddrs[i] : i \in 1..4}

\* new Device(samba)
NoFlash == [driver |-> "none", pages |-> 0, size |-> 0, user |-> 0, stack |-> 0]
NoDevice == [pc |-> "new", reads |-> <<>>, chipId |-> 0, extChipId |-> 0, cpuId |-> 0,
             deviceId |-> 0, family |-> "NONE", flash |-> NoFlash, uniqueId |-> FALSE]
\* a target that is not asked what it is
Unprobed == mem = [a \in Addrs |-> <<0, 0, 0, 0>>] /\ dev = NoDevice

\* a client that has connected, to a target with or without the Arduino
\* extensions, and the driver made for the target
Connected ==
  /\ fam \in {"D2x", "D5x"}
  /\ canChipErase \in BOOLEAN
  /\ canWriteBuffer = canChipErase
  /\ exclusiveWriter \in (IF fam = "D5x" THEN BOOLEAN ELSE {TRUE})
  /\ banner = (IF canChipErase THEN <<Marker, "X", "Y", "]", "lf", "cr">>
               ELSE <<"v", "lf", "cr">>)
  /\ closed = FALSE
  /\ canChecksumBuffer = FALSE
  /\ canProtect = FALSE
  /\ readBufferSize = (IF canChipErase THEN 63 ELSE 0)
  /\ Fresh

\* a device whose user row is erased
Init == Connected /\ Unprobed /\ row = ErasedRow(fam) /\ rowIn = row
\* a device with options programmed in its user row
InitOptions == Connected /\ Unprobed /\ row \in Rows(fam) /\ rowIn = row

(* ------------------------------ history -------------------------------- *)
Min(a, b) == IF a < b THEN a ELSE b
NewRun(h) == [h EXCEPT !.runN = 0, !.flips = 0, !.startA = onBufferA]
HistBegin(c) ==
  IF c.op = "writePage" THEN (IF hist.runN >= MaxRun THEN NewRun(hist) ELSE hist)
  ELSE IF c.op = "loadBuffer" THEN hist
  ELSE IF c.op = "writeOptions" THEN [NewRun(hist) EXCEPT !.flushes = @ + 1]
  ELSE NewRun(hist)
HistReturn ==
  IF call.op = "writePage"
    THEN [hist EXCEPT !.runN = @ + 1, !.chain = IF @ = 1 THEN 2 ELSE 0]
  ELSE IF call.op = "loadBuffer"
    THEN [hist EXCEPT !.chain = 1, !.lastLoad = target.load]
  ELSE [hist EXCEPT !.chain = 0]
HistFail ==
  [hist EXCEPT !.runN = 0, !.flips = 0, !.startA = onBufferA, !.chain = 0]

(* ----------------------------- the transport --------------------------- *)
\* writable.getWriter() succeeds unless the port is exclusive and a writer
\* taken by an earlier sendCommand has not been released yet
CanSend == ~(exclusiveWriter /\ pending # <<>>)

\* the writes of the commands in flight: each hands its view of the shared
\* packet buffer, as the buffer reads when its sleep(50) ends
Flushed(buf) == [i \in 1..Len(pending) |-> Frame(SubSeq(buf, 1, pending[i]), 0)]

\* sendCommand awaited by its caller: the packet is built in the shared buffer,
\* writeToStream takes the writer, sleeps and writes; timers started earlier
\* fire first
Send(c, logged, payload) ==
  LET buf == Overwrite(sendBuf, Packet(c)) IN
  /\ sendBuf' = buf
  /\ overlapped' = (overlapped \/ pending # <<>>)
  /\ pending' = IF CanSend THEN <<>> ELSE pending
  /\ sent' = IF CanSend
               THEN sent \o Flushed(buf)
                      \o (IF logged THEN <<Frame(Packet(c), 0)>> ELSE <<>>) \o payload
               ELSE sent

\* an exception leaves every method on the stack and reaches the API caller
FailCmd(e) ==
  IF e = "FlashCmdError" THEN [cmdSt EXCEPT !.st = "raised"]
  ELSE IF cmdSt.st = "in" THEN [cmdSt EXCEPT !.st = "aborted"] ELSE cmdSt
FailErase(e) ==
  IF e = "FlashEraseError" THEN [er EXCEPT !.st = "raised"]
  ELSE IF er.st = "in" THEN [er EXCEPT !.st = "aborted"] ELSE er
Fail(e) ==
  /\ k' = <<>>
  /\ result' = e
  /\ cmdSt' = FailCmd(e)
  /\ er' = FailErase(e)
  /\ hist' = HistFail

IsReg(addr) == addr >= NVM_REG_BASE /\ addr < NVM_REG_BASE + 64
Touch(addr) == IF IsReg(addr) /\ er.st = "in" THEN [er EXCEPT !.acc = TRUE] ELSE er
CmdReg == NVM_REG_BASE + (IF fam = "D2x" THEN D2x_NVM_REG_CTRLA ELSE D5x_NVM_REG_CTRLB)
AddrReg == NVM_REG_BASE + (IF fam = "D2x" THEN D2x_NVM_REG_ADDR ELSE D5x_NVM_REG_ADDR)
EraseCmd == BitOr(CMDEX_KEY, IF fam = "D2x" THEN D2x_NVM_CMD_ER ELSE D5x_NVM_CMD_EB)
\* the byte address ADDR names: D2x takes it in 16-bit words
ErasedAt == IF fam = "D2x" THEN target.addr * 2 ELSE target.addr
\* the register of the cache / manual-write configuration
CtrlReg == NVM_REG_BASE + (IF fam = "D2x" THEN D2x_NVM_REG_CTRLB ELSE D5x_NVM_REG_CTRLA)
\* the command a value written to the command register dispatches
CmdName(val) ==
  LET cmd == val - CMDEX_KEY IN
  IF fam = "D2x"
    THEN CASE cmd = D2x_NVM_CMD_PBC -> "pbc" [] cmd = D2x_NVM_CMD_WP -> "wp"
           [] cmd = D2x_NVM_CMD_ER -> "er" [] cmd = D2x_NVM_CMD_EAR -> "rowErase"
           [] cmd = D2x_NVM_CMD_WAP -> "rowWrite" [] cmd = D2x_NVM_CMD_SSB -> "ssb"
           [] OTHER -> "cmd"
    ELSE CASE cmd = D5x_NVM_CMD_PBC -> "pbc" [] cmd = D5x_NVM_CMD_WP -> "wp"
           [] cmd = D5x_NVM_CMD_EB -> "er" [] cmd = D5x_NVM_CMD_EP -> "rowErase"
           [] cmd = D5x_NVM_CMD_WQW -> "rowWrite" [] cmd = D5x_NVM_CMD_SSB -> "ssb"
           [] OTHER -> "cmd"
\* the step a write to addr is, outside erase(); "" for the other writes
WriteStep(addr, val) ==
  IF er.st = "in" THEN ""
  ELSE IF addr = CtrlReg THEN "ctrl"
  ELSE IF addr = CmdReg THEN CmdName(val)
  ELSE IF addr = AddrReg THEN "addr"
  ELSE IF addr = UserAddr + applet_dst_addr THEN "dst"
  ELSE IF addr = UserAddr + applet_src_addr THEN "src"
  ELSE ""
\* the two byte writes of one control-register update are one step
Step(ev) ==
  IF ev = "" \/ (ev = "ctrl" /\ steps # <<>> /\ steps[Len(steps)] = "ctrl") THEN steps
  ELSE Append(steps, ev)

(* ------------------------------ the target ----------------------------- *)
\* 'X', the first byte of the reply chipErase accepts
XReply == 88
\* readBuffer returned null: no byte arrived before the timeout
NoReply == -1
\* what the target may answer to a word read (D2x) or a byte read (D5x)
\* STATUS carries the security bit (0x100), which getSecurity tests
WordReplies(addr) ==
  IF addr = NVM_REG_BASE + D2x_NVM_REG_INTFLAG THEN {0, 1, 2, 3}
  ELSE IF addr = NVM_REG_BASE + D2x_NVM_REG_STATUS /\ fam = "D2x" /\ call.op = "writeOptions"
    THEN {0, 256}
  ELSE {0}
ByteReplies(addr) ==
  IF addr >= rowAddr /\ addr < rowAddr + rowSize THEN {RowAt(row, addr - rowAddr)}
  ELSE IF addr = NVM_REG_BASE + D5x_NVM_REG_STATUS THEN {0, 1}
  ELSE IF addr = NVM_REG_BASE + D5x_NVM_REG_INTFLAG THEN {0, 2}
  ELSE {0}

\* a reply that is missing or carries an error flag
Faulty(addr, r) ==
  \/ r = NoReply
  \/ addr = NVM_REG_BASE + D2x_NVM_REG_INTFLAG /\ fam = "D2x" /\ BitAnd(r, 2) # 0
  \/ addr = NVM_REG_BASE + D5x_NVM_REG_INTFLAG /\ fam = "D5x" /\ BitAnd(r, 206) # 0
Allowed(addr, r) == Faulty(addr, r) => faults < MaxFaults
Count(addr, r) == IF CanSend /\ Faulty(addr, r) THEN faults + 1 ELSE faults

IsCell(addr) == addr >= UserAddr + applet_stack /\ addr <= UserAddr + applet_words
WriteCell(addr, val) ==
  IF addr = AddrReg THEN [target EXCEPT !.addr = val]
  ELSE IF addr = UserAddr + applet_dst_addr THEN [target EXCEPT !.dst = val]
  ELSE IF addr = UserAddr + applet_src_addr THEN [target EXCEPT !.src = val]
  ELSE IF addr = UserAddr + applet_words THEN [target EXCEPT !.words = val]
  ELSE target

HistUpload(addr) ==
  IF addr = UserAddr THEN [hist EXCEPT !.uploads = Min(@ + 1, 2)] ELSE hist
HistCell(addr) == IF IsCell(addr) THEN [hist EXCEPT !.touched = TRUE] ELSE hist
\* the target stores the word of a W command in the cell it addresses
CellWritten(h, addr, val) ==
  IF addr = UserAddr + applet_stack THEN [h EXCEPT !.cells.stack = val]
  ELSE IF addr = UserAddr + applet_reset THEN [h EXCEPT !.cells.reset = val]
  ELSE IF addr = UserAddr + applet_dst_addr THEN [h EXCEPT !.cells.dst = val]
  ELSE IF addr = UserAddr + applet_src_addr THEN [h EXCEPT !.cells.src = val]
  ELSE IF addr = UserAddr + applet_words THEN [h EXCEPT !.cells.words = val]
  ELSE h

engine == <<eraseAuto, onBufferA, prepared, installed>>
xport == <<sendBuf, pending, sent, overlapped>>

(* ------------------------- steps of a running call --------------------- *)
\* a method is entered: its body replaces the call
Enter ==
  /\ k # <<>> /\ Head(k).i = "call"
  /\ k' = Body(Head(k)) \o Tail(k)
  /\ cmdSt' = IF Head(k).s = "command" THEN [st |-> "in", flags |-> 0] ELSE cmdSt
  /\ cmdTrace' = IF Head(k).s = "command" THEN <<>> ELSE cmdTrace
  /\ er' = IF Head(k).s = "erase"
             THEN [st |-> "in", off |-> Head(k).a, size |-> Head(k).v, acc |-> FALSE]
             ELSE er
  /\ steps' = Step(IF Head(k).s = "erase" THEN "erase" ELSE "")
  /\ UNCHANGED <<env, engine, call, result, tmp, xport, eraseLog, target,
                 regAccess, fault, hist>>

\* the commands an API call of SamBA.read has handed to sendCommand
ReadStep(c) == IF call.op = "read" THEN Append(steps, cmdString(c)) ELSE steps

\* SamBA.readWord: 'w' + hex(addr) + ',4', four reply bytes or SamBAError
samba_readWord ==
  /\ k # <<>> /\ Head(k).i = "readWord"
  /\ \E r \in WordReplies(Head(k).a) \cup {NoReply} :
       /\ Allowed(Head(k).a, r)
       /\ faults' = Count(Head(k).a, r)
       /\ Send(Cmd("w", Head(k).a, 0), FALSE, <<>>)
       /\ regAccess' = (regAccess \/ (CanSend /\ IsReg(Head(k).a)))
       /\ IF ~CanSend
            THEN Fail("TypeError") /\ fault' = TRUE /\ tmp' = tmp
          ELSE IF r = NoReply
            THEN Fail("SamBAError") /\ fault' = TRUE /\ tmp' = tmp
          ELSE /\ k' = Tail(k)
               /\ tmp' = r
               /\ er' = Touch(Head(k).a)
               /\ UNCHANGED <<result, cmdSt, hist, fault>>
  /\ UNCHANGED <<cfg, engine, call, cmdTrace, eraseLog, target, steps>>

\* SamBA.readByte: 'o' + hex(addr) + ',4'; readRegU16 combines lo | hi << 8
samba_readByte ==
  /\ k # <<>> /\ Head(k).i = "readByte"
  /\ \E r \in ByteReplies(Head(k).a) \cup {NoReply} :
       /\ Allowed(Head(k).a, r)
       /\ faults' = Count(Head(k).a, r)
       /\ Send(Cmd("o", Head(k).a, 0), FALSE, <<>>)
       /\ regAccess' = (regAccess \/ (CanSend /\ IsReg(Head(k).a)))
       /\ IF ~CanSend
            THEN Fail("TypeError") /\ fault' = TRUE /\ tmp' = tmp
          ELSE IF r = NoReply
            THEN Fail("SamBAError") /\ fault' = TRUE /\ tmp' = tmp
          ELSE /\ k' = Tail(k)
               /\ tmp' = IF Head(k).s = "lo" THEN r ELSE BitOr(tmp, r * 256)
               /\ er' = Touch(Head(k).a)
               /\ UNCHANGED <<result, cmdSt, hist, fault>>
  /\ steps' = ReadStep(Cmd("o", Head(k).a, 0))
  /\ UNCHANGED <<cfg, engine, call, cmdTrace, eraseLog, target>>

\* SamBA.writeWord: 'W' + hex(addr) + ',' + hex(value, 8), no reply awaited
samba_writeWord ==
  /\ k # <<>> /\ Head(k).i = "writeWord"
  /\ LET ins == Head(k)
         val == IF ins.s = "tmp" THEN tmp ELSE ins.v
         disp == ins.a = CmdReg
     IN
     /\ Send(Cmd("W", ins.a, val), TRUE, <<>>)
     /\ IF ~CanSend
          THEN /\ Fail("TypeError")
               /\ fault' = TRUE
               /\ UNCHANGED <<target, cmdTrace, eraseLog, regAccess, steps>>
          ELSE /\ k' = Tail(k)
               /\ target' = WriteCell(ins.a, val)
               /\ steps' = Step(WriteStep(ins.a, val))
               /\ cmdTrace' = IF disp /\ cmdSt.st = "in"
                                THEN Append(cmdTrace, "disp") ELSE cmdTrace
               /\ eraseLog' = IF disp /\ val = EraseCmd
                                THEN Append(eraseLog, ErasedAt) ELSE eraseLog
               /\ regAccess' = (regAccess \/ IsReg(ins.a))
               /\ er' = Touch(ins.a)
               /\ hist' = CellWritten(HistCell(ins.a), ins.a, val)
               /\ UNCHANGED <<result, cmdSt, fault>>
  /\ UNCHANGED <<env, engine, call, tmp>>

\* SamBA.writeByte: sendCommand is started and not awaited; it runs up to the
\* sleep(50) of writeToStream (or to the getWriter() that throws, a rejection
\* nobody observes) and writeByte returns
samba_writeByte ==
  /\ k # <<>> /\ Head(k).i = "writeByte"
  /\ LET ins == Head(k)
         val == IF ins.s = "tmplo" THEN tmp % 256
                ELSE IF ins.s = "tmphi" THEN (tmp \div 256) % 256
                ELSE ins.v
         pkt == Packet(Cmd("O", ins.a, val))
     IN
     /\ sendBuf' = Overwrite(sendBuf, pkt)
     /\ pending' = IF CanSend THEN Append(pending, Len(pkt)) ELSE pending
     /\ overlapped' = (overlapped \/ pending # <<>>)
     /\ regAccess' = (regAccess \/ IsReg(ins.a))
     /\ er' = Touch(ins.a)
     /\ steps' = Step(WriteStep(ins.a, val))
     /\ target' = [target EXCEPT !.bytes = IF Len(@) >= 2 THEN <<[a |-> ins.a, v |-> val]>>
                                            ELSE Append(@, [a |-> ins.a, v |-> val])]
  /\ k' = Tail(k)
  /\ UNCHANGED <<env, engine, call, result, tmp, sent, cmdTrace, cmdSt,
                 eraseLog, fault, hist>>

\* SamBA.write: 'S' + hex(addr) + ',' + hex(size, 8), then the buffer itself
samba_write ==
  /\ k # <<>> /\ Head(k).i = "write"
  /\ Send(Cmd("S", Head(k).a, Head(k).v), TRUE, <<Frame(<<>>, Head(k).n)>>)
  /\ IF ~CanSend
       THEN Fail("TypeError") /\ fault' = TRUE /\ target' = target
       ELSE /\ k' = Tail(k)
            /\ hist' = HistUpload(Head(k).a)
            /\ target' = IF Head(k).a = UserAddr THEN target
                          ELSE [target EXCEPT !.load = Head(k).a, !.size = Head(k).v,
                                              !.n = Head(k).n]
            /\ UNCHANGED <<result, cmdSt, er, fault>>
  /\ UNCHANGED <<env, engine, call, tmp, cmdTrace, eraseLog, regAccess, steps>>

\* SamBA.go: 'G' + hex(addr)
samba_go ==
  /\ k # <<>> /\ Head(k).i = "go"
  /\ Send(Cmd("G", Head(k).a, 0), TRUE, <<>>)
  /\ IF ~CanSend
       THEN Fail("TypeError") /\ fault' = TRUE /\ steps' = steps
       ELSE /\ k' = Tail(k)
            /\ steps' = Step("run")
            /\ hist' = [hist EXCEPT !.atRun = hist.sinceRun, !.sinceRun = 0,
                                    !.lastRunSrc = target.src, !.touched = TRUE,
                                    !.atGo = <<[cells |-> hist.cells, buf |-> sendBuf,
                                                addr |-> Head(k).a]>>]
            /\ UNCHANGED <<result, cmdSt, er, fault>>
  /\ UNCHANGED <<env, engine, call, tmp, cmdTrace, eraseLog, target, regAccess>>

\* SamBA.chipErase: 'X' + hex(start_addr); the reply must begin with 'X'
samba_chipErase ==
  /\ k # <<>> /\ Head(k).i = "chipErase"
  /\ \E r \in {NoReply, XReply, 0} :
       /\ r # XReply => faults < MaxFaults
       /\ faults' = IF canChipErase /\ CanSend /\ r # XReply THEN faults + 1 ELSE faults
       /\ IF ~canChipErase
         THEN Fail("SamBAError") /\ fault' = TRUE /\ tmp' = tmp /\ UNCHANGED xport
         ELSE /\ Send(Cmd("X", Head(k).a, 0), TRUE, <<>>)
              /\ IF ~CanSend
                   THEN Fail("TypeError") /\ fault' = TRUE /\ tmp' = tmp
                 ELSE IF r # XReply
                   THEN Fail("SamBAError") /\ fault' = TRUE /\ tmp' = r
                 ELSE /\ k' = Tail(k)
                      /\ tmp' = r
                      /\ UNCHANGED <<result, cmdSt, er, hist, fault>>
  /\ UNCHANGED <<cfg, engine, call, cmdTrace, eraseLog, target, regAccess, steps>>

\* value | mask, value & mask on the value just read
Calc ==
  /\ k # <<>> /\ Head(k).i \in {"or", "and"}
  /\ tmp' = IF Head(k).i = "or" THEN BitOr(tmp, Head(k).v) ELSE BitAnd(tmp, Head(k).v)
  /\ k' = Tail(k)
  /\ UNCHANGED <<env, engine, call, result, xport, cmdTrace, cmdSt, er,
                 eraseLog, target, regAccess, fault, steps, hist>>

\* the trace keeps, of consecutive ready reads, the most recent one
ReadyRead(trace, ready) ==
  LET mark == IF ready THEN "rdy1" ELSE "rdy0" IN
  IF trace # <<>> /\ trace[Len(trace)] \in {"rdy0", "rdy1"}
    THEN [trace EXCEPT ![Len(trace)] = mark]
    ELSE Append(trace, mark)

\* the loop test of waitReady: read again while the ready bit is clear
WaitTest ==
  /\ k # <<>> /\ Head(k).i = "waitTest"
  /\ LET ready == BitAnd(tmp, Head(k).v) # 0 IN
     /\ k' = IF ready THEN Tail(k) ELSE waitReady \o Tail(k)
     /\ cmdTrace' = IF cmdSt.st = "in" THEN ReadyRead(cmdTrace, ready) ELSE cmdTrace
     /\ steps' = Step(IF ready /\ cmdSt.st # "in" /\ er.st # "in" THEN "ready" ELSE "")
  /\ UNCHANGED <<env, engine, call, result, tmp, xport, cmdSt, er, eraseLog,
                 target, regAccess, fault, hist>>

\* command(): if (INTFLAG & error bits) { clear; throw }
IfAnd ==
  /\ k # <<>> /\ Head(k).i = "ifAnd"
  /\ LET err == BitAnd(tmp, Head(k).v) # 0 IN
     /\ k' = IF err THEN cmdError \o Tail(k) ELSE Tail(k)
     /\ fault' = (fault \/ err)
  /\ cmdSt' = [cmdSt EXCEPT !.flags = tmp]
  /\ cmdTrace' = Append(cmdTrace, "flags")
  /\ UNCHANGED <<env, engine, call, result, tmp, xport, er, eraseLog, target,
                 regAccess, steps, hist>>

Throw ==
  /\ k # <<>> /\ Head(k).i = "throw"
  /\ Fail(Head(k).s)
  /\ UNCHANGED <<env, engine, call, tmp, xport, cmdTrace, eraseLog, target,
                 regAccess, fault, steps>>

\* mutant of the toggle statement: the flag keeps its value
Toggle_stuck ==
  /\ k # <<>> /\ Head(k).i = "toggle"
  /\ onBufferA' = onBufferA
  /\ hist' = [hist EXCEPT !.sinceRun = Min(@ + 1, 2)]
  /\ k' = Tail(k)
  /\ steps' = Step("toggle")
  /\ UNCHANGED <<env, eraseAuto, prepared, installed, call, result, tmp, xport,
                 cmdTrace, cmdSt, er, eraseLog, target, regAccess, fault>>
\* this._onBufferA = !this._onBufferA
Toggle ==
  /\ k # <<>> /\ Head(k).i = "toggle"
  /\ onBufferA' = ~onBufferA
  /\ hist' = [hist EXCEPT !.flips = IF onBufferA' # onBufferA THEN @ + 1 ELSE @,
                          !.sinceRun = Min(@ + 1, 2)]
  /\ k' = Tail(k)
  /\ steps' = Step("toggle")
  /\ UNCHANGED <<env, eraseAuto, prepared, installed, call, result, tmp, xport,
                 cmdTrace, cmdSt, er, eraseLog, target, regAccess, fault>>

SetPrepared ==
  /\ k # <<>> /\ Head(k).i = "setPrepared"
  /\ prepared' = TRUE
  /\ k' = Tail(k)
  /\ UNCHANGED <<env, eraseAuto, onBufferA, installed, call, result, tmp, xport,
                 cmdTrace, cmdSt, er, eraseLog, target, regAccess, fault, steps, hist>>

SetInstalled ==
  /\ k # <<>> /\ Head(k).i = "setInstalled"
  /\ installed' = TRUE
  /\ k' = Tail(k)
  /\ UNCHANGED <<env, eraseAuto, onBufferA, prepared, call, result, tmp, xport,
                 cmdTrace, cmdSt, er, eraseLog, target, regAccess, fault, steps, hist>>

\* command() or erase() returns normally
Ret ==
  /\ k # <<>> /\ Head(k).i = "ret"
  /\ cmdSt' = IF Head(k).s = "command" THEN [cmdSt EXCEPT !.st = "done"] ELSE cmdSt
  /\ er' = IF Head(k).s = "erase" THEN [er EXCEPT !.st = "done"] ELSE er
  /\ k' = Tail(k)
  /\ steps' = Step(IF Head(k).s = "command" /\ er.st # "in" THEN "done" ELSE "")
  /\ UNCHANGED <<env, engine, call, result, tmp, xport, cmdTrace, eraseLog,
                 target, regAccess, fault, hist>>

\* the API call's promise resolves
Return ==
  /\ k = <<>> /\ result = "run"
  /\ result' = "ok"
  /\ hist' = HistReturn
  /\ UNCHANGED <<env, engine, k, call, tmp, xport, cmdTrace, cmdSt, er, eraseLog,
                 target, regAccess, fault, steps>>

\* with no call running, the sleep(50) of the commands in flight ends and
\* each writes its view of the packet buffer
TimerFires ==
  /\ k = <<>> /\ result # "run" /\ pending # <<>>
  /\ sent' = sent \o Flushed(sendBuf)
  /\ pending' = <<>>
  /\ UNCHANGED <<env, engine, k, call, result, tmp, sendBuf, overlapped, cmdTrace,
                 cmdSt, er, eraseLog, target, regAccess, fault, steps, hist>>

(* ------------------------- steps of writeOptions ----------------------- *)
port == <<fam, canChipErase, canWriteBuffer, exclusiveWriter, faults, rd, caps, probe, store>>
callv == <<call, result, tmp, xport, cmdTrace, cmdSt, er, eraseLog, target,
           regAccess, fault, steps, hist>>

\* var userRow = new Uint8Array(this.NVM_UR_SIZE)
NewRow ==
  /\ k # <<>> /\ Head(k).i = "newRow"
  /\ userRow' = ZeroRow(fam)
  /\ rowRead' = FALSE
  /\ rowIn' = row
  /\ current' = <<>>
  /\ k' = Tail(k)
  /\ UNCHANGED <<port, engine, callv, options, row>>

\* SamBA.read, one round: 'R' + hex(addr) + ',' + hex(chunk); the chunk
\* bytes of the reply are stored from buffer[start], or SamBAError
samba_read ==
  /\ k # <<>> /\ Head(k).i = "read"
  /\ steps' = ReadStep(Cmd("R", Head(k).a, Head(k).v))
  /\ \E r \in {0, NoReply} :
       /\ r = NoReply => faults < MaxFaults
       /\ faults' = IF CanSend /\ r = NoReply THEN faults + 1 ELSE faults
       /\ Send(Cmd("R", Head(k).a, Head(k).v), FALSE, <<>>)
       /\ IF ~CanSend
            THEN Fail("TypeError") /\ fault' = TRUE /\ userRow' = userRow
          ELSE IF r = NoReply
            THEN Fail("SamBAError") /\ fault' = TRUE /\ userRow' = userRow
          ELSE /\ k' = Tail(k)
               /\ userRow' =
                    [o \in DOMAIN userRow |->
                       IF o >= Head(k).n /\ o < Head(k).n + Head(k).v
                         THEN RowAt(row, Head(k).a - rowAddr + (o - Head(k).n))
                         ELSE userRow[o]]
               /\ UNCHANGED <<result, cmdSt, er, hist, fault>>
  /\ UNCHANGED <<fam, canChipErase, canWriteBuffer, exclusiveWriter, engine, call,
                 tmp, cmdTrace, eraseLog, target, regAccess, options, row,
                 rowIn, rowRead, current, rd, caps, probe, store>>

\* SamBA.read: buffer[start] = await this.readByte(addr), start = 0
RowByte ==
  /\ k # <<>> /\ Head(k).i = "rowByte"
  /\ userRow' = [userRow EXCEPT ![0] = tmp]
  /\ k' = Tail(k)
  /\ UNCHANGED <<port, engine, callv, options, row, rowIn, rowRead, current>>

\* readUserRow returns
ReadDone ==
  /\ k # <<>> /\ Head(k).i = "readDone"
  /\ rowRead' = TRUE
  /\ k' = Tail(k)
  /\ UNCHANGED <<port, engine, callv, options, row, rowIn, userRow, current>>

\* getLockRegions: lockBits = await this._samba.readByte(addr++)
LockBits ==
  /\ k # <<>> /\ Head(k).i = "lockBits"
  /\ current' = Append(current, tmp)
  /\ k' = Tail(k)
  /\ UNCHANGED <<port, engine, callv, options, row, rowIn, userRow, rowRead>>

\* the comparison of writeOptions' loop: regions[i] == current[i]
equalRegions ==
  \A i \in 1..Len(regions.value) : regions.value[i] = isLocked(current, i - 1)

\* the test that guards a block of writeOptions
Differs(s) ==
  CASE s = "bor" -> bor.value # getBor(tmp)
    [] s = "bod" -> bod.value # getBod(tmp)
    [] s = "regions" -> ~equalRegions
    [] s = "security" -> security.value # (BitAnd(tmp, 256) # 0)
IfDiffers ==
  /\ k # <<>> /\ Head(k).i = "ifDiffers"
  /\ k' = (IF ~Differs(Head(k).s) THEN <<>>
           ELSE IF Head(k).s = "security" THEN <<CallIns("command", D2x_NVM_CMD_SSB, 0)>>
           ELSE readUserRow \o <<Ins("setBits", 0, 0, Head(k).s)>>) \o Tail(k)
  /\ steps' = (IF Head(k).s # "security" THEN steps
               ELSE Append(steps, IF BitAnd(tmp, 256) # 0 THEN "secured" ELSE "open"))
  /\ UNCHANGED <<port, engine, call, result, tmp, xport, cmdTrace, cmdSt, er, eraseLog,
                 target, regAccess, fault, hist, options, rowv>>

\* userRow[offset + region / 8] with a Uint8Array: an index that is not an
\* integer names no element, the read gives undefined and the store is dropped
RECURSIVE setLocks(_, _)
setLocks(img, region) ==
  IF region >= Len(regions.value) THEN img
  ELSE LET o == lockOffset + region \div 8
           new == IF regions.value[region + 1]
                    THEN ClearMask(img[o], Pow2(region % 8))
                    ELSE SetMask(img[o], Pow2(region % 8))
       IN setLocks(IF region % 8 = 0 THEN [img EXCEPT ![o] = new] ELSE img, region + 1)

setBor(img) ==
  LET mask == IF fam = "D2x" THEN NVM_UR_BOD33_RESET_MASK ELSE NVM_UP_BOD33_RESET_MASK IN
  [img EXCEPT ![borOffset] = IF bor.value THEN SetMask(@, mask) ELSE ClearMask(@, mask)]
setBod(img) ==
  IF fam = "D2x"
    THEN [img EXCEPT ![bodOffset] = IF bod.value THEN SetMask(@, NVM_UR_BOD33_ENABLE_MASK)
                                     ELSE ClearMask(@, NVM_UR_BOD33_ENABLE_MASK)]
    ELSE [img EXCEPT ![bodOffset] = IF bod.value THEN ClearMask(@, NVM_UP_BOD33_DISABLE_MASK)
                                     ELSE SetMask(@, NVM_UP_BOD33_DISABLE_MASK)]

SetBits ==
  /\ k # <<>> /\ Head(k).i = "setBits"
  /\ userRow' = CASE Head(k).s = "bor" -> setBor(userRow)
                   [] Head(k).s = "bod" -> setBod(userRow)
                   [] Head(k).s = "regions" -> setLocks(userRow, 0)
  /\ k' = Tail(k)
  /\ UNCHANGED <<port, engine, callv, options, row, rowIn, rowRead, current>>

\* the device carries out the command that has completed: the row erased,
\* or the bytes the applet copied from the page buffer programmed
Nvm ==
  /\ k # <<>> /\ Head(k).i = "nvm"
  /\ row' = IF Head(k).s = "erase" THEN ErasedRow(fam)
            ELSE [o \in DOMAIN row |->
                    IF o >= Head(k).a /\ o < Head(k).a + Head(k).v
                      THEN BitAnd(row[o], userRow[o]) ELSE row[o]]
  /\ k' = Tail(k)
  /\ UNCHANGED <<port, engine, callv, options, rowIn, userRow, rowRead, current>>

(* ------------------------------ API calls ------------------------------ *)
\* the caller awaits each call and starts the next when the port is quiet
Begin(c) ==
  /\ k = <<>> /\ result # "run" /\ pending = <<>>
  /\ call' = c
  /\ k' = <<CallIns(c.op, c.a, c.v)>>
  /\ result' = "run"
  /\ tmp' = 0
  /\ sendBuf' = <<>>
  /\ sent' = <<>>
  /\ overlapped' = FALSE
  /\ cmdTrace' = <<>>
  /\ cmdSt' = NoCmd
  /\ er' = NoErase
  /\ eraseLog' = <<>>
  /\ regAccess' = FALSE
  /\ fault' = FALSE
  /\ target' = NoTarget
  /\ steps' = <<>>
  /\ hist' = [HistBegin(c) EXCEPT !.atGo = <<>>, !.callA = onBufferA]
  /\ UNCHANGED <<env, engine, pending>>

Pages == {0, 1, numPages}
EraseAllOffsets == {0, pageSize, erasePages * pageSize}
EraseArgs ==
  LET E == erasePages * pageSize IN
  {<<0, E>>, <<E, totalSize - E>>, <<E, totalSize>>, <<pageSize, E>>}

CallEraseAll ==
  \E offset \in EraseAllOffsets : Begin([op |-> "eraseAll", a |-> offset, v |-> 0])
CallErase ==
  \E args \in EraseArgs : Begin([op |-> "erase", a |-> args[1], v |-> args[2]])
CallWritePage ==
  \E page \in Pages : Begin([op |-> "writePage", a |-> page, v |-> 0])
\* loadBuffer(data, 0, pageSize) with data of one page or of several
CallLoadBuffer ==
  \E dataLen \in {pageSize, 2 * pageSize} :
    Begin([op |-> "loadBuffer", a |-> dataLen, v |-> pageSize])
SetEraseAuto ==
  /\ k = <<>> /\ result # "run" /\ pending = <<>>
  /\ \E enable \in BOOLEAN : eraseAuto' = enable
  /\ UNCHANGED <<env, onBufferA, prepared, installed, k, call, result, tmp, xport,
                 cmdTrace, cmdSt, er, eraseLog, target, regAccess, fault, steps, hist>>

\* the setters mark an option dirty; writeOptions flushes them
LockArgs == {<<TRUE>>, <<FALSE, TRUE>>}
SetBor ==
  /\ k = <<>> /\ result # "run" /\ pending = <<>> /\ hist.flushes < MaxFlushes
  /\ \E enable \in BOOLEAN : bor' = [value |-> enable, dirty |-> TRUE]
  /\ UNCHANGED <<port, engine, k, callv, bod, regions, security, rowv>>
SetBod ==
  /\ k = <<>> /\ result # "run" /\ pending = <<>> /\ hist.flushes < MaxFlushes
  /\ \E enable \in BOOLEAN : bod' = [value |-> enable, dirty |-> TRUE]
  /\ UNCHANGED <<port, engine, k, callv, bor, regions, security, rowv>>
SetLockRegions ==
  /\ k = <<>> /\ result # "run" /\ pending = <<>> /\ hist.flushes < MaxFlushes
  /\ \E v \in LockArgs :
       /\ Len(v) <= lockRegions
       /\ regions' = [value |-> v, dirty |-> TRUE]
  /\ UNCHANGED <<port, engine, k, callv, bor, bod, security, rowv>>
SetSecurity ==
  /\ k = <<>> /\ result # "run" /\ pending = <<>> /\ hist.flushes < MaxFlushes
  /\ security' = [value |-> TRUE, dirty |-> TRUE]
  /\ UNCHANGED <<port, engine, k, callv, bor, bod, regions, rowv>>
CallWriteOptions ==
  /\ hist.flushes < MaxFlushes
  /\ Begin([op |-> "writeOptions", a |-> 0, v |-> 0])

Next ==
  \/ CallEraseAll \/ CallErase \/ CallWritePage \/ CallLoadBuffer \/ SetEraseAuto
  \/ Enter \/ samba_readWord \/ samba_readByte \/ samba_writeWord
  \/ samba_writeByte \/ samba_write \/ samba_go \/ samba_chipErase
  \/ Calc \/ WaitTest \/ IfAnd \/ Throw \/ Toggle \/ SetPrepared \/ SetInstalled
  \/ Ret \/ Return \/ TimerFires

Spec == Init /\ [][Next]_vars

(* ------------------- the applet object on its own ---------------------- *)
AppletCalls ==
  {<<"setDstAddr", 0>>, <<"setDstAddr", pageSize>>,
   <<"setSrcAddr", pageBufferA>>, <<"setSrcAddr", pageBufferB>>,
   <<"setWords", pageSize \div 4>>, <<"setWords", 4>>,
   <<"setStack", StackAddr>>, <<"run", 0>>, <<"runv", 0>>}
CallApplet ==
  \E m \in AppletCalls : Begin([op |-> m[1], a |-> m[2], v |-> 0])

NextApplet ==
  \/ CallApplet \/ Enter \/ samba_write \/ samba_writeWord \/ samba_go
  \/ SetInstalled \/ Return

SpecApplet == Init /\ [][NextApplet]_vars

(* ------------------------ the option interface ------------------------- *)
NextOptions ==
  \/ SetBor \/ SetBod \/ SetLockRegions \/ SetSecurity \/ CallWriteOptions
  \/ NewRow \/ samba_read \/ RowByte \/ ReadDone \/ LockBits \/ IfDiffers
  \/ SetBits \/ Nvm
  \/ Enter \/ samba_readWord \/ samba_readByte \/ samba_writeWord
  \/ samba_writeByte \/ samba_write \/ samba_go
  \/ Calc \/ WaitTest \/ IfAnd \/ Throw \/ Toggle \/ SetPrepared \/ SetInstalled
  \/ Ret \/ Return \/ TimerFires

SpecOptions == InitOptions /\ [][NextOptions]_vars

(* ----------------------------- SamBA._connect -------------------------- *)
Width(c) == IF c = Marker THEN 9 ELSE 1
RECURSIVE byteLength(_)
byteLength(buffer) ==
  IF buffer = <<>> THEN 0 ELSE Width(Head(buffer)) + byteLength(Tail(buffer))

\* decodeResponse: both tests of the if are assignments to the last two
\* bytes, 0x0c and 0x0a, which are true: a buffer of more than two bytes
\* loses its last two bytes, whatever they were
decodeResponse(buffer) ==
  LET n == Len(buffer) IN
  IF byteLength(buffer) > 2
    THEN IF buffer[n] = Marker THEN SubSeq(buffer, 1, n - 1) \o <<"v">>
         ELSE IF buffer[n - 1] = Marker THEN SubSeq(buffer, 1, n - 2) \o <<"v">>
         ELSE SubSeq(buffer, 1, n - 2)
    ELSE buffer

\* version.indexOf('[Arduino:'), counted in elements from 1; 0 for -1
RECURSIVE indexOf(_, _, _)
indexOf(version, c, from) ==
  IF from > Len(version) THEN 0
  ELSE IF version[from] = c THEN from
  ELSE indexOf(version, c, from + 1)

\* the while loop of _connect: the letters up to the next ']' or the end
RECURSIVE extensions(_, _)
extensions(version, extIndex) ==
  IF extIndex <= Len(version) /\ version[extIndex] # "]"
    THEN {version[extIndex]} \cup extensions(version, extIndex + 1)
    ELSE {}

\* SamBA._connect: readVersion raises when no byte came, else the version is
\* searched for the extensions
samba_connect ==
  /\ closed
  /\ closed' = FALSE
  /\ LET version == decodeResponse(banner)
         extIndex == indexOf(version, Marker, 1)
         found == IF banner # <<>> /\ extIndex # 0
                    THEN extensions(version, extIndex + 1) ELSE {}
     IN /\ canChipErase' = (canChipErase \/ "X" \in found)
        /\ canWriteBuffer' = (canWriteBuffer \/ "Y" \in found)
        /\ canChecksumBuffer' = (canChecksumBuffer \/ "Z" \in found)
        /\ canProtect' = (canProtect \/ "P" \in found)
        /\ readBufferSize' = IF banner # <<>> /\ extIndex # 0 THEN 63 ELSE readBufferSize
  /\ UNCHANGED <<fam, exclusiveWriter, faults, rd, banner, engine, k, callv, options,
                 rowv, probe, store>>

\* the banners: text, then maybe the bracket with up to MaxLetters letters,
\* closed or not, then text, and the line end or none
RECURSIVE Letters(_)
Letters(n) ==
  IF n = 0 THEN {<<>>}
  ELSE LET shorter == Letters(n - 1) IN
       shorter \cup {Append(q, c) : q \in {x \in shorter : Len(x) = n - 1},
                                    c \in {"X", "Y", "Z", "P"}}
Banners ==
  {pre \o mid \o post :
     pre \in {<<>>, <<"v">>},
     mid \in {<<>>} \cup {<<Marker>> \o l \o c : l \in Letters(MaxLetters),
                          c \in {<<>>, <<"]">>, <<"]", "P">>, <<"]", "Z", "]">>}},
     post \in {<<>>, <<"lf", "cr">>}}

InitConnect ==
  /\ fam = "D2x"
  /\ canChipErase = FALSE
  /\ canWriteBuffer = FALSE
  /\ exclusiveWriter = TRUE
  /\ banner \in Banners
  /\ closed = TRUE
  /\ canChecksumBuffer = FALSE
  /\ canProtect = FALSE
  /\ readBufferSize = 0
  /\ Fresh
  /\ Unprobed
  /\ row = ErasedRow(fam) /\ rowIn = row
SpecConnect == InitConnect /\ [][samba_connect]_vars

(* ------------------------------ SamBA.read ----------------------------- *)
\* sizes of a read: powers of two up to and over 32, and others
ReadSizes == {32, 33, 48, 64, 128}
CallRead == \E size \in ReadSizes : Begin([op |-> "read", a |-> rowAddr, v |-> size])

NextReadMem ==
  \/ CallRead \/ Enter \/ NewRow \/ samba_readByte \/ RowByte \/ samba_read
  \/ ReadDone \/ Return
SpecReadMem == InitOptions /\ [][NextReadMem]_vars

(* -------------------- replies: readBuffer and its callers -------------- *)
\* the bytes the target sends before the timeout, fewer than asked or not
ReplyBytes == {0, 1, 234}
RECURSIVE SeqsUpTo(_)
SeqsUpTo(n) ==
  IF n = 0 THEN {<<>>}
  ELSE LET shorter == SeqsUpTo(n - 1) IN
       shorter \cup {Append(q, b) : q \in {x \in shorter : Len(x) = n - 1}, b \in ReplyBytes}

\* readByte, readWord or one round of read calls sendCommand with its
\* responseSize; sendCommand resets the input buffer and readBuffer starts
StartRead ==
  /\ rd.st # "collecting"
  /\ \E req \in {<<"readByte", 1>>, <<"readWord", 4>>}
                  \cup {<<"read", chunk>> : chunk \in 1..MaxReply},
        inbox \in SeqsUpTo(MaxReply) :
       rd' = [op |-> req[1], size |-> req[2], inbox |-> inbox, reply |-> <<>>,
              st |-> "collecting", value |-> <<>>]
  /\ UNCHANGED <<fam, canChipErase, canWriteBuffer, exclusiveWriter, faults, engine, k,
                 callv, options, rowv, caps, probe, store>>

\* readBuffer leaves its loop after a byte when the reply has more than one
\* byte and the last is 0, or when the reply has responseSize bytes
stops(reply, responseSize) ==
  \/ Len(reply) > 1 /\ reply[Len(reply)] = 0
  \/ responseSize # 0 /\ Len(reply) = responseSize

\* what the caller makes of readBuffer's result: null raises SamBAError;
\* an element beyond the result is undefined, 0 in a shift, an or and a
\* Uint8Array store
elementOr0(res, i) == IF i <= Len(res) THEN res[i] ELSE 0
\* readWord: result[3] << 24 | result[2] << 16 | result[1] << 8 | result[0],
\* the signed 32-bit integer the operator | yields
wordValue(res) ==
  LET b3 == elementOr0(res, 4) IN
  (IF b3 >= 128 THEN b3 - 256 ELSE b3) * 16777216
    + elementOr0(res, 3) * 65536 + elementOr0(res, 2) * 256 + elementOr0(res, 1)
\* a number as <<n div 2^16, n mod 2^16>>, which also writes the numbers of
\* 2^31 and more that the source compares with
Num(n) == <<n \div 65536, n % 65536>>
returned(r) ==
  IF Len(r.reply) = 0 THEN [r EXCEPT !.st = "raised"]
  ELSE [r EXCEPT !.st = "returned",
                 !.value = IF r.op = "readByte" THEN <<r.reply[1]>>
                           ELSE IF r.op = "readWord" THEN <<wordValue(r.reply)>>
                           ELSE [i \in 1..r.size |-> elementOr0(r.reply, i)]]

\* readBuffer, one round with a byte in the input buffer
readBuffer_shift ==
  /\ rd.st = "collecting" /\ rd.inbox # <<>>
  /\ LET reply == Append(rd.reply, Head(rd.inbox))
         next == [rd EXCEPT !.reply = reply, !.inbox = Tail(rd.inbox)]
     IN rd' = IF stops(reply, rd.size) THEN returned(next) ELSE next
  /\ UNCHANGED <<fam, canChipErase, canWriteBuffer, exclusiveWriter, faults, engine, k,
                 callv, options, rowv, caps, probe, store>>

\* readBuffer: the timeout passes with the input buffer empty
readBuffer_timeout ==
  /\ rd.st = "collecting" /\ rd.inbox = <<>>
  /\ rd' = returned(rd)
  /\ UNCHANGED <<fam, canChipErase, canWriteBuffer, exclusiveWriter, faults, engine, k,
                 callv, options, rowv, caps, probe, store>>

NextRead == StartRead \/ readBuffer_shift \/ readBuffer_timeout
SpecRead == Init /\ [][NextRead]_vars

(* ----------------------------- Device.create --------------------------- *)
\* readBuffer when every byte of the reply comes in time
collect(inbox, reply, responseSize) ==
  LET all == reply \o inbox
      cuts == {n \in (Len(reply) + 1)..Len(all) : stops(SubSeq(all, 1, n), responseSize)}
  IN IF cuts = {} THEN all
     ELSE SubSeq(all, 1, CHOOSE n \in cuts : \A m \in cuts : n <= m)

\* await this._samba.readWord(addr): the target sends the four bytes of the
\* word, the low byte first
readWordAt(a) == wordValue(collect(mem[a], <<>>, 4))

\* value & mask for a signed 32-bit value and the mask maskHi * 2^16 + maskLo:
\* the result is a signed 32-bit integer
and32(value, maskHi, maskLo) ==
  LET hi == BitAnd((value \div 65536) % 65536, maskHi)
      lo == BitAnd(value % 65536, maskLo)
  IN (IF hi >= 32768 THEN hi - 65536 ELSE hi) * 65536 + lo

\* switch (chipId & 0x7fffffe0): the family of each case label; every case
\* leaves flashPtr null
ChipIds(family) ==
  CASE family = "SAM7SE" ->
         {657066560, 657066304, 657064768}
    [] family = "SAM7S" ->
         {655034944, 655165760, 655034688, 655099712, 654968640, 654902592,
          654836544, 654639680}
    [] family = "SAM7XC" ->
         {656149056, 656083264, 656017216}
    [] family = "SAM7X" ->
         {660343360, 660277568, 660211520}
    [] family = "SAM4S" ->
         {696717024, 697765600, 698814176, 696716336, 697764912, 698813488,
          679939296, 680987872, 682036448, 680266976, 681315552, 682364128,
          680266464, 681315040, 682363616, 680200672, 681249248, 682297824,
          680200160, 681248736, 682297312}
    [] family = "SAM3N" ->
         {691276128, 692324704, 693373280, 691603296, 692651872, 693700448,
          691537248, 692585824, 693634400, 691536736, 692585312, 693633888}
    [] family = "SAM3S" ->
         {698026592, 699075168, 681249376, 682297952, 679479648, 680528224,
          681576800, 680134496, 681183072, 682231648, 680068448, 681117024,
          682165600}
    [] family = "SAM3U" ->
         {671091040, 672139616, 671745888, 672794464, 671679840, 672728416}
    [] family = "SAM3X" ->
         {678300256, 677251680, 676203104, 677054816, 676006240}
    [] family = "SAM3A" ->
         {675154528, 674957664}
    [] family = "SAM7L" ->
         {657655616, 657655104}
    [] family = "SAM9XE" ->
         {848995232, 848991136, 848917408}
    [] family = "SAME70" ->
         {554502656, 553782272, 553782784}
    [] family = "SAMS70" ->
         {555551232, 554830848, 554831360}
    [] family = "SAMV70" ->
         {557648384, 556928000}
    [] family = "SAMV71" ->
         {556599808, 555879424, 555879936}
ChipFamilies == {"SAM7SE", "SAM7S", "SAM7XC", "SAM7X", "SAM4S", "SAM3N", "SAM3S", "SAM3U", "SAM3X", "SAM3A", "SAM7L", "SAM9XE", "SAME70", "SAMS70", "SAMV70", "SAMV71"}

\* switch (deviceId & 0xffff00ff): the case labels of each entry, the family
\* it sets, the driver it constructs and what it assigns to flashPtr
DeviceTable == {
  [ids |-> {268500995, 268501000, 268501005, 268501025, 268501028, 268501031,
           268501078, 268501091},
   family |-> "SAMD21", driver |-> "D2x", name |-> "ATSAMD21x15", pages |-> 512, size |-> 64,
   user |-> 536872960, stack |-> 536875008, assigned |-> TRUE],
  [ids |-> {268500994, 268500999, 268501004, 268501024, 268501027, 268501030,
           268501077, 268501090},
   family |-> "SAMD21", driver |-> "D2x", name |-> "ATSAMD21x16", pages |-> 1024, size |-> 64,
   user |-> 536875008, stack |-> 536879104, assigned |-> TRUE],
  [ids |-> {268500993, 268500998, 268501003, 268501008},
   family |-> "SAMD21", driver |-> "D2x", name |-> "ATSAMD21x17", pages |-> 2048, size |-> 64,
   user |-> 536879104, stack |-> 536887296, assigned |-> TRUE],
  [ids |-> {268500992, 268500997, 268501002, 268501007},
   family |-> "SAMD21", driver |-> "D2x", name |-> "ATSAMD21x18", pages |-> 4096, size |-> 64,
   user |-> 536887296, stack |-> 536903680, assigned |-> TRUE],
  [ids |-> {268501022, 268501019},
   family |-> "SAMR21", driver |-> "D2x", name |-> "ATSAMR21x16", pages |-> 1024, size |-> 64,
   user |-> 536875008, stack |-> 536879104, assigned |-> TRUE],
  [ids |-> {268501021, 268501018},
   family |-> "SAMR21", driver |-> "D2x", name |-> "ATSAMR21x17", pages |-> 2048, size |-> 64,
   user |-> 536879104, stack |-> 536887296, assigned |-> TRUE],
  [ids |-> {268501020, 268501017},
   family |-> "SAMR21", driver |-> "D2x", name |-> "ATSAMR21x18", pages |-> 4096, size |-> 64,
   user |-> 536887296, stack |-> 536903680, assigned |-> TRUE],
  [ids |-> {268501016},
   family |-> "SAMR21", driver |-> "D2x", name |-> "ATSAMR21x19", pages |-> 4096, size |-> 64,
   user |-> 536887296, stack |-> 536903680, assigned |-> TRUE],
  [ids |-> {276889613, 276889628},
   family |-> "SAMD21", driver |-> "D2x", name |-> "ATSAML21x15", pages |-> 512, size |-> 64,
   user |-> 536872960, stack |-> 536875008, assigned |-> TRUE],
  [ids |-> {276889602, 276889607, 276889612, 276889617, 276889622, 276889627},
   family |-> "SAML21", driver |-> "D2x", name |-> "ATSAML21x16", pages |-> 1024, size |-> 64,
   user |-> 536875008, stack |-> 536879104, assigned |-> TRUE],
  [ids |-> {276889601, 276889606, 276889611, 276889616, 276889621, 276889626},
   family |-> "SAML21", driver |-> "D2x", name |-> "ATSAML21x17", pages |-> 2048, size |-> 64,
   user |-> 536879104, stack |-> 536887296, assigned |-> TRUE],
  [ids |-> {276889600, 276889605, 276889610, 276889615, 276889620, 276889625},
   family |-> "SAML21", driver |-> "D2x", name |-> "ATSAML21x18", pages |-> 4096, size |-> 64,
   user |-> 536887296, stack |-> 536903680, assigned |-> TRUE],
  [ids |-> {1611005958, 1611005960},
   family |-> "SAMD51", driver |-> "D5x", name |-> "ATSAMD51x18", pages |-> 512, size |-> 512,
   user |-> 536887296, stack |-> 536903680, assigned |-> FALSE],
  [ids |-> {1611005953, 1611005955, 1611005957, 1611005959},
   family |-> "SAMD51", driver |-> "D5x", name |-> "ATSAMD51x19", pages |-> 1024, size |-> 512,
   user |-> 536887296, stack |-> 536903680, assigned |-> FALSE],
  [ids |-> {1611005952, 1611005954, 1611005956},
   family |-> "SAMD51", driver |-> "D5x", name |-> "ATSAMD51x20", pages |-> 2048, size |-> 512,
   user |-> 536887296, stack |-> 536903680, assigned |-> FALSE],
  [ids |-> {1635844099},
   family |-> "SAME51", driver |-> "D5x", name |-> "ATSAME51x18", pages |-> 512, size |-> 512,
   user |-> 536887296, stack |-> 536903680, assigned |-> FALSE],
  [ids |-> {1635844098, 1635844097},
   family |-> "SAME51", driver |-> "D5x", name |-> "ATSAME51x19", pages |-> 1024, size |-> 512,
   user |-> 536887296, stack |-> 536903680, assigned |-> FALSE],
  [ids |-> {1635844100, 1635844096},
   family |-> "SAME51", driver |-> "D5x", name |-> "ATSAME51x20", pages |-> 2048, size |-> 512,
   user |-> 536887296, stack |-> 536903680, assigned |-> FALSE],
  [ids |-> {1635975174},
   family |-> "SAME53", driver |-> "D5x", name |-> "ATSAME53x18", pages |-> 512, size |-> 512,
   user |-> 536887296, stack |-> 536903680, assigned |-> FALSE],
  [ids |-> {1635975173, 1635975171},
   family |-> "SAME53", driver |-> "D5x", name |-> "ATSAME53x19", pages |-> 1024, size |-> 512,
   user |-> 536887296, stack |-> 536903680, assigned |-> FALSE],
  [ids |-> {1635975172, 1635975170},
   family |-> "SAME53", driver |-> "D5x", name |-> "ATSAME53x20", pages |-> 2048, size |-> 512,
   user |-> 536887296, stack |-> 536903680, assigned |-> FALSE],
  [ids |-> {1636040705, 1636040707},
   family |-> "SAME54", driver |-> "D5x", name |-> "ATSAME54x19", pages |-> 1024, size |-> 512,
   user |-> 536887296, stack |-> 536903680, assigned |-> FALSE],
  [ids |-> {1636040704, 1636040706},
   family |-> "SAME54", driver |-> "D5x", name |-> "ATSAME54x20", pages |-> 2048, size |-> 512,
   user |-> 536887296, stack |-> 536903680, assigned |-> FALSE]}
\* the case labels from which control passes readChipUniqueId
UniqueIdCases == {268500992, 268501017, 268501020, 268501021}

DeviceIds == UNION {e.ids : e \in DeviceTable}
\* case 0x23cc0ce0: switch (extChipId)
SAM4E_ChipId == 600575200
SAM4E_ExtIds == {1180160, 1180161, 1180168, 1180169}

Probed == <<fam, canChipErase, canWriteBuffer, exclusiveWriter, faults, rd, caps,
            engine, k, callv, options, rowv, mem, store>>
Reads(addrs) == [dev EXCEPT !.reads = @ \o addrs]

\* if (((await this._samba.readWord(0x0)) & 0xff000000) == 0xea000000)
\*   chipId = await this._samba.readWord(0xfffff240)
create_reset ==
  /\ dev.pc = "new"
  /\ dev' = IF Num(and32(readWordAt(A_RESET), 65280, 0)) = <<59904, 0>>
              THEN [Reads(<<A_RESET, A_CHIPID7>>) EXCEPT
                      !.chipId = readWordAt(A_CHIPID7), !.pc = "switch"]
              ELSE [Reads(<<A_RESET>>) EXCEPT !.pc = "cpuid"]
  /\ UNCHANGED Probed

\* cpuId = await this._samba.readWord(0xe000ed00) & 0x0000fff0
create_cpuid ==
  /\ dev.pc = "cpuid"
  /\ LET cpuId == and32(readWordAt(A_CPUID), 0, 65520) IN
     dev' = [Reads(<<A_CPUID>>) EXCEPT
               !.cpuId = cpuId,
               !.pc = IF cpuId = 50688 THEN "dsu"
                      ELSE IF cpuId = 49728 THEN "vec4" ELSE "chipid"]
  /\ UNCHANGED Probed

\* if (((await this._samba.readWord(0x4)) & 0xfff00000) == 0x800000)
create_vec4 ==
  /\ dev.pc = "vec4"
  /\ dev' = [Reads(<<A_VEC4>>) EXCEPT
               !.pc = IF and32(readWordAt(A_VEC4), 65520, 0) = 8388608
                        THEN "chipid" ELSE "dsu"]
  /\ UNCHANGED Probed

\* deviceId = await this._samba.readWord(0x41002018)
create_dsu ==
  /\ dev.pc = "dsu"
  /\ dev' = [Reads(<<A_DSU>>) EXCEPT !.deviceId = readWordAt(A_DSU), !.pc = "switch"]
  /\ UNCHANGED Probed

\* readChipId: the extChipId read after the first register is a new local
\* of the if block, the one returned stays 0
readChipId ==
  /\ dev.pc = "chipid"
  /\ LET first == readWordAt(A_CHIPID)
         second == readWordAt(A_CHIPID2)
     IN dev' =
          IF first # 0
            THEN [Reads(<<A_CHIPID, A_EXID>>) EXCEPT
                    !.chipId = first, !.extChipId = 0, !.pc = "switch"]
          ELSE IF second # 0
            THEN [Reads(<<A_CHIPID, A_CHIPID2, A_EXID2>>) EXCEPT
                    !.chipId = second, !.extChipId = readWordAt(A_EXID2),
                    !.pc = "switch"]
          ELSE [Reads(<<A_CHIPID, A_CHIPID2>>) EXCEPT
                  !.chipId = 0, !.extChipId = 0, !.pc = "switch"]
  /\ UNCHANGED Probed

\* the two switches of create and the test of flashPtr that ends it
create_switch ==
  /\ dev.pc = "switch"
  /\ LET id == and32(dev.chipId, 32767, 65504)
         did == and32(dev.deviceId, 65535, 255)
         entries == {e \in DeviceTable : did \in e.ids}
         families == {f \in ChipFamilies : id \in ChipIds(f)}
     IN dev' =
          IF id = 0 /\ entries # {}
            THEN LET e == CHOOSE x \in entries : TRUE
                     d == IF did \in UniqueIdCases
                            THEN [Reads(UniqueIdAddrs) EXCEPT !.uniqueId = TRUE]
                            ELSE dev
                 IN IF e.assigned
                      THEN [d EXCEPT !.family = e.family,
                                     !.flash = [driver |-> e.driver, pages |-> e.pages,
                                                size |-> e.size, user |-> e.user,
                                                stack |-> e.stack],
                                     !.pc = "done"]
                      ELSE [d EXCEPT !.family = e.family, !.pc = "unsupported"]
          ELSE IF id = SAM4E_ChipId /\ dev.extChipId \in SAM4E_ExtIds
            THEN [dev EXCEPT !.family = "SAM4E", !.pc = "unsupported"]
          ELSE IF families # {}
            THEN [dev EXCEPT !.family = CHOOSE f \in families : TRUE,
                             !.pc = "unsupported"]
          ELSE [dev EXCEPT !.pc = "unsupported"]
  /\ UNCHANGED Probed

\* the words a target can hold at the addresses create reads
Words(a) ==
  CASE a = A_RESET -> {<<254, 255, 255, 234>>, <<0, 128, 0, 32>>}
    [] a = A_CPUID -> {<<0, 198, 12, 65>>, <<64, 194, 15, 65>>, <<48, 194, 47, 65>>}
    [] a = A_VEC4 -> {<<69, 35, 1, 128>>, <<35, 1, 128, 0>>, <<161, 4, 0, 0>>}
    [] a = A_DSU -> {<<0, 0, 1, 16>>, <<5, 3, 1, 16>>, <<29, 1, 1, 16>>, <<13, 1, 129, 16>>,
                     <<5, 3, 6, 96>>, <<2, 1, 132, 97>>, <<153, 3, 1, 16>>}
    [] a = A_CHIPID -> {<<0, 0, 0, 0>>, <<96, 10, 94, 40>>, <<224, 12, 204, 163>>}
    [] a = A_CHIPID2 -> {<<0, 0, 0, 0>>, <<96, 10, 94, 40>>, <<224, 12, 204, 163>>}
    [] a = A_EXID2 -> {<<0, 0, 0, 0>>, <<1, 2, 18, 0>>}
    [] a = A_CHIPID7 -> {<<64, 10, 11, 39>>}
    [] OTHER -> {<<1, 2, 3, 4>>}

InitDevice ==
  /\ Connected /\ fam = "D2x" /\ ~canChipErase
  /\ row = ErasedRow(fam) /\ rowIn = row
  /\ dev = NoDevice
  /\ \E w0 \in Words(A_RESET), w1 \in Words(A_CPUID), w2 \in Words(A_VEC4),
        w3 \in Words(A_DSU), w4 \in Words(A_CHIPID), w5 \in Words(A_CHIPID2),
        w6 \in Words(A_EXID2) :
       mem = [a \in Addrs |->
                CASE a = A_RESET -> w0 [] a = A_CPUID -> w1 [] a = A_VEC4 -> w2
                  [] a = A_DSU -> w3 [] a = A_CHIPID -> w4 [] a = A_CHIPID2 -> w5
                  [] a = A_EXID2 -> w6
                  [] OTHER -> CHOOSE w \in Words(a) : TRUE]

NextDevice ==
  \/ create_reset \/ create_cpuid \/ create_vec4 \/ create_dsu
  \/ readChipId \/ create_switch
SpecDevice == InitDevice /\ [][NextDevice]_vars


(* ------------------------------ writeBuffer ---------------------------- *)
\* one sendCommand of SamBA.writeBuffer: the reply must begin with 'Y'
YReply == 89
samba_Y ==
  /\ k # <<>> /\ Head(k).i = "Y"
  /\ \E r \in {NoReply, YReply, 0} :
       /\ r # YReply => faults < MaxFaults
       /\ faults' = IF CanSend /\ r # YReply THEN faults + 1 ELSE faults
       /\ Send(Cmd(Head(k).s, Head(k).a, Head(k).v), TRUE, <<>>)
       /\ IF ~CanSend
            THEN Fail("TypeError") /\ fault' = TRUE /\ steps' = steps
          ELSE IF r # YReply
            THEN Fail("SamBAError") /\ fault' = TRUE /\ steps' = steps
          ELSE /\ k' = Tail(k)
               /\ steps' = Append(steps, cmdString(Cmd(Head(k).s, Head(k).a, Head(k).v)))
               /\ UNCHANGED <<result, cmdSt, er, hist, fault>>
  /\ UNCHANGED <<cfg, engine, call, tmp, cmdTrace, eraseLog, target, regAccess>>

\* writeBuffer(dst_addr, size) of a driver, from a granule boundary or not
WriteBufferArgs ==
  LET E == erasePages * pageSize IN
  {<<0, E>>, <<0, pageSize>>, <<E, E>>, <<pageSize, pageSize>>, <<E + pageSize, pageSize>>}
CallWriteBuffer ==
  \E args \in WriteBufferArgs : Begin([op |-> "writeBuffer", a |-> args[1], v |-> args[2]])

NextWriteBuffer ==
  \/ CallWriteBuffer \/ SetEraseAuto
  \/ Enter \/ samba_readWord \/ samba_readByte \/ samba_writeWord
  \/ samba_writeByte \/ samba_Y
  \/ Calc \/ WaitTest \/ IfAnd \/ Throw
  \/ Ret \/ Return \/ TimerFires
SpecWriteBuffer == Init /\ [][NextWriteBuffer]_vars

(* ------------------------ the extended commands ------------------------ *)
\* 'Z', the first byte of the reply checksumBuffer accepts
ZReply == 90
\* the sendCommand of SamBA.checksumBuffer: the reply must begin with 'Z',
\* the eight hex digits after it are the checksum
samba_Z ==
  /\ k # <<>> /\ Head(k).i = "Z"
  /\ \E r \in {NoReply, ZReply, 0} :
       /\ r # ZReply => faults < MaxFaults
       /\ faults' = IF CanSend /\ r # ZReply THEN faults + 1 ELSE faults
       /\ Send(Cmd("Z", Head(k).a, Head(k).v), TRUE, <<>>)
       /\ IF ~CanSend
            THEN Fail("TypeError") /\ fault' = TRUE /\ tmp' = tmp
          ELSE IF r # ZReply
            THEN Fail("SamBAError") /\ fault' = TRUE /\ tmp' = tmp
          ELSE /\ k' = Tail(k)
               /\ \E num \in {0, 1} : tmp' = num
               /\ UNCHANGED <<result, cmdSt, er, hist, fault>>
  /\ UNCHANGED <<cfg, engine, call, cmdTrace, eraseLog, target, regAccess, steps>>

\* a client connected to a target whose banner advertises any of X, Y, Z
BannerLetters(x, y, z) ==
  (IF x THEN <<"X">> ELSE <<>>) \o (IF y THEN <<"Y">> ELSE <<>>) \o (IF z THEN <<"Z">> ELSE <<>>)
InitExtended ==
  /\ fam \in {"D2x", "D5x"}
  /\ canChipErase \in BOOLEAN /\ canWriteBuffer \in BOOLEAN /\ canChecksumBuffer \in BOOLEAN
  /\ exclusiveWriter \in (IF fam = "D5x" THEN BOOLEAN ELSE {TRUE})
  /\ banner \in {<<"v", "lf", "cr">>,
                 <<Marker>> \o BannerLetters(canChipErase, canWriteBuffer, canChecksumBuffer)
                   \o <<"]", "lf", "cr">>}
  /\ (canChipErase \/ canWriteBuffer \/ canChecksumBuffer) => banner[1] = Marker
  /\ closed = FALSE
  /\ canProtect = FALSE
  /\ readBufferSize = (IF banner[1] = Marker THEN 63 ELSE 0)
  /\ Fresh /\ Unprobed /\ row = ErasedRow(fam) /\ rowIn = row

\* samba.chipErase(start_addr), flash.writeBuffer(dst_addr, size) of the base
\* class, samba.checksumBuffer(start_addr, size)
ExtendedSizes == {pageSize, checksumBufferSize, checksumBufferSize + 1}
CallChipErase == \E a \in {0, pageSize} : Begin([op |-> "chipErase", a |-> a, v |-> 0])
CallSambaWriteBuffer ==
  \E size \in ExtendedSizes : Begin([op |-> "superWriteBuffer", a |-> 0, v |-> size])
CallChecksumBuffer ==
  \E size \in ExtendedSizes : Begin([op |-> "checksumBuffer", a |-> 0, v |-> size])

NextExtended ==
  \/ CallChipErase \/ CallSambaWriteBuffer \/ CallChecksumBuffer
  \/ Enter \/ samba_chipErase \/ samba_Y \/ samba_Z \/ Throw
  \/ Return
SpecExtended == InitExtended /\ [][NextExtended]_vars

(* ------------------------------ Uint8Buffer ---------------------------- *)
\* the buffer never holds more than MaxBuffer bytes
MaxBuffer == 4
Bytes == {1, 2}
Max(a, b) == IF a > b THEN a ELSE b
\* the bytes one push or copy adds
Pushed == {<<>>} \cup {<<a>> : a \in Bytes} \cup {<<a, b>> : a \in Bytes, b \in Bytes}
\* grow(newSize): a new view of newSize bytes with the old bytes copied
grow(b, newSize) ==
  [b EXCEPT !.size = newSize,
            !.view = [i \in 1..newSize |-> IF i <= b.size THEN b.view[i] ELSE 0]]
\* ensure(length): if (this.size - this.writeOffset < length) grow
ensure(b, length) ==
  IF b.size - b.writeOffset < length THEN grow(b, b.size + Max(length, b.size)) ELSE b
\* this._view.set(bytes, this.writeOffset); this.writeOffset += bytes.length
stored(b, bytes) ==
  [b EXCEPT !.view = [i \in 1..b.size |->
                        IF i > b.writeOffset /\ i <= b.writeOffset + Len(bytes)
                          THEN bytes[i - b.writeOffset] ELSE b.view[i]],
            !.writeOffset = @ + Len(bytes)]
BufferIdle ==
  UNCHANGED <<fam, canChipErase, canWriteBuffer, exclusiveWriter, faults, rd, caps,
              engine, k, callv, options, rowv, probe, nvm, job, back, io>>

\* push(...bytes)
Uint8Buffer_push ==
  /\ \E bytes \in Pushed :
       /\ u8.writeOffset + Len(bytes) <= MaxBuffer
       /\ u8' = stored(ensure(u8, Len(bytes)), bytes)
  /\ BufferIdle
\* copy(bytes: Uint8Array)
Uint8Buffer_copy ==
  /\ \E bytes \in Pushed :
       /\ u8.writeOffset + Len(bytes) <= MaxBuffer
       /\ u8' = stored(ensure(u8, Len(bytes)), bytes)
  /\ BufferIdle
\* fill(element, length = 1)
Uint8Buffer_fill ==
  /\ \E element \in Bytes \cup {0}, length \in 1..2 :
       /\ u8.writeOffset + length <= MaxBuffer
       /\ u8' = stored(ensure(u8, length), [i \in 1..length |-> element])
  /\ BufferIdle
\* shift(): undefined when length <= 0, else this._view[this.readOffset++]
Uint8Buffer_shift ==
  /\ u8' = IF u8.writeOffset - u8.readOffset <= 0 THEN u8
           ELSE [u8 EXCEPT !.readOffset = @ + 1]
  /\ BufferIdle
\* reset()
Uint8Buffer_reset ==
  /\ u8' = [u8 EXCEPT !.writeOffset = 0, !.readOffset = 0]
  /\ BufferIdle
\* view(): new Uint8Array(this._buffer, this.readOffset, this.writeOffset),
\* a RangeError when byteOffset + length exceeds the buffer
Uint8Buffer_view ==
  IF u8.readOffset + u8.writeOffset > u8.size THEN [error |-> "RangeError", bytes |-> <<>>]
  ELSE [error |-> "none",
        bytes |-> [i \in 1..u8.writeOffset |-> u8.view[u8.readOffset + i]]]
\* what shift() would return: 0 stands for undefined
nextShift == IF u8.writeOffset - u8.readOffset <= 0 THEN 0 ELSE u8.view[u8.readOffset + 1]

NextBuffer ==
  \/ Uint8Buffer_push \/ Uint8Buffer_copy \/ Uint8Buffer_fill
  \/ Uint8Buffer_shift \/ Uint8Buffer_reset
SpecBuffer == Init /\ [][NextBuffer]_vars

(* --------------------- the read loop and sendCommand ------------------- *)
\* the commands of a session
MaxCmds == 2
\* a byte on the link: the command the target sent it in reply to, its value
ReplyOf(cmd, size) ==
  {[i \in 1..size |-> [cmd |-> cmd, byte |-> b[i]]] : b \in [1..size -> {0, 1}]}
Values(bytes) == [i \in 1..Len(bytes) |-> bytes[i].byte]
LinkIdle ==
  UNCHANGED <<fam, canChipErase, canWriteBuffer, exclusiveWriter, faults, rd, caps,
              engine, k, callv, options, rowv, probe, nvm, job, back, u8>>

\* sendCommand up to its first await: this.inputBuffer.reset(), the packet
\* built, writeToStream entered
sendCommand ==
  /\ io.st = "idle" /\ io.cmd < MaxCmds
  /\ \E responseSize \in {1, 3} :
       io' = [io EXCEPT !.cmd = @ + 1, !.st = "writing", !.size = responseSize,
                        !.inputBuffer = <<>>, !.reply = <<>>, !.response = <<>>]
  /\ LinkIdle
\* await writer.write(msg) settles: the target has the command and sends its
\* reply; readBuffer starts with an empty reply
writeToStream ==
  /\ io.st = "writing"
  /\ \E bytes \in ReplyOf(io.cmd, io.size) :
       io' = [io EXCEPT !.st = "reading", !.wire = @ \o bytes]
  /\ LinkIdle
\* readLoop: await this.serialReader.read() yields a chunk, which is copied
\* to the input buffer; it runs whenever the issuer is suspended or idle
readLoop ==
  /\ io.wire # <<>>
  /\ \E n \in 1..Len(io.wire) :
       io' = [io EXCEPT !.wire = SubSeq(@, n + 1, Len(@)),
                        !.inputBuffer = @ \o SubSeq(io.wire, 1, n)]
  /\ LinkIdle
\* readBuffer, one round with a byte in the input buffer
readBuffer_take ==
  /\ io.st = "reading" /\ io.inputBuffer # <<>>
  /\ LET reply == Append(io.reply, Head(io.inputBuffer)) IN
     io' = IF stops(Values(reply), io.size)
             THEN [io EXCEPT !.inputBuffer = Tail(@), !.reply = <<>>, !.response = reply,
                             !.st = "idle"]
             ELSE [io EXCEPT !.inputBuffer = Tail(@), !.reply = reply]
  /\ LinkIdle
\* readBuffer: the timeout passes with the input buffer empty; null or the
\* bytes collected so far are returned
readBuffer_late ==
  /\ io.st = "reading" /\ io.inputBuffer = <<>>
  /\ io' = [io EXCEPT !.reply = <<>>, !.response = io.reply, !.st = "idle"]
  /\ LinkIdle

NextLink == sendCommand \/ writeToStream \/ readLoop \/ readBuffer_take \/ readBuffer_late
SpecLink == Init /\ [][NextLink]_vars

(* -------------------- writePage among writeOptions --------------------- *)
\* writePage calls and writeOptions calls, with the BOD option set or not
NextCells ==
  \/ CallWritePage \/ SetBod \/ CallWriteOptions
  \/ NewRow \/ samba_read \/ RowByte \/ ReadDone \/ IfDiffers
  \/ SetBits \/ Nvm
  \/ Enter \/ samba_readWord \/ samba_readByte \/ samba_writeWord
  \/ samba_writeByte \/ samba_write \/ samba_go
  \/ Calc \/ WaitTest \/ IfAnd \/ Throw \/ Toggle \/ SetPrepared \/ SetInstalled
  \/ Ret \/ Return \/ TimerFires
SpecCells == Init /\ [][NextCells]_vars

(* ------------------------ calls that must end -------------------------- *)
\* erase and writePage, which enter command and waitReady; every step of the
\* client is taken when it can be: the event loop runs each continuation
\* whose await has settled. What the target answers is left open.
NextEngine ==
  \/ CallErase \/ CallWritePage
  \/ Enter \/ samba_readWord \/ samba_readByte \/ samba_writeWord
  \/ samba_writeByte \/ samba_write \/ samba_go
  \/ Calc \/ WaitTest \/ IfAnd \/ Throw \/ Toggle \/ SetPrepared \/ SetInstalled
  \/ Ret \/ Return \/ TimerFires
SpecEngineFair == Init /\ [][NextEngine]_vars /\ WF_vars(NextEngine)

(* ----------------------------- Flasher.write -------------------------- *)
\* write(data, foffset): images of one page, of a page more than two, of a
\* buffer and a page, and of more than the flash, at offsets in and out of
\* the flash
FlasherArgs ==
  {<<pageSize, 0>>, <<2 * pageSize + 1, 0>>, <<2 * pageSize, totalSize - pageSize>>,
   <<pageSize, pageSize \div 2>>, <<pageSize, totalSize>>, <<totalSize + 1, 0>>}
    \cup (IF totalSize > writeBufferSize THEN {<<writeBufferSize + pageSize, 0>>} ELSE {})
CallFlasherWrite ==
  \E args \in FlasherArgs : Begin([op |-> "write", a |-> args[1], v |-> args[2]])

NextFlasher ==
  \/ CallFlasherWrite
  \/ Enter \/ samba_readWord \/ samba_readByte \/ samba_writeWord
  \/ samba_writeByte \/ samba_write \/ samba_go \/ samba_Y
  \/ Calc \/ WaitTest \/ IfAnd \/ Throw \/ Toggle \/ SetPrepared \/ SetInstalled
  \/ Ret \/ Return \/ TimerFires
SpecFlasher == Init /\ [][NextFlasher]_vars

(* ------------------- an image written and read back -------------------- *)
\* the bytes of a page: erased flash, the content before the image, and the
\* pages of an image: "a" has no zero byte, "z" a zero byte followed by
\* others, "pad" is the last page of an image that ends after its first byte
PageBytes(id) ==
  [o \in 0..(pageSize - 1) |->
     CASE id = "erased" -> 255
       [] id = "old" -> 17
       [] id = "a" -> 165
       [] id = "z" -> (IF o = 2 THEN 0 ELSE 165)
       [] OTHER -> (IF o = 0 THEN 165 ELSE 0)]
Images ==
  {[i \in 1..n |-> IF i = n THEN last ELSE body] :
     n \in {1, erasePages + 1}, body \in {"a", "z"}, last \in {"a", "pad"}}

\* the byte address the ADDR register names: D2x takes it in 16-bit words
ByteAddr(reg) == IF fam = "D2x" THEN reg * 2 ELSE reg

\* the loop of erase(): the granules whose ER / EB command is issued
RECURSIVE eraseNums(_, _)
eraseNums(eraseNum, end) ==
  IF beforeEraseEnd(eraseNum, end, pageSize * erasePages)
    THEN {eraseNum} \cup eraseNums(eraseNum + 1, end)
    ELSE {}
\* writePage: if (this.eraseAuto && page % ERASE_ROW_PAGES == 0)
\*   await this.erase(page * this._size, ERASE_ROW_PAGES * this._size)
autoErased(page) ==
  IF eraseAuto /\ page % erasePages = 0
    THEN eraseNums((page * pageSize) \div (pageSize * erasePages),
                   page * pageSize + erasePages * pageSize)
    ELSE {}
\* the page the WP command of writePage(page) stores the page buffer in
wpPage(page) == ByteAddr((page * pageSize) \div 2) \div pageSize

\* SamBA.read(addr, buffer, size) over the bytes the target holds at addr:
\* every instruction of read() in turn, each R reply as readBuffer collects it
RECURSIVE readInto(_, _, _, _)
readInto(insns, bytes, buffer, byte) ==
  IF insns = <<>> THEN buffer
  ELSE LET ins == Head(insns) IN
       IF ins.i = "readByte"
         THEN readInto(Tail(insns), bytes, buffer, bytes[ins.a])
       ELSE IF ins.i = "rowByte"
         THEN readInto(Tail(insns), bytes, [buffer EXCEPT ![0] = byte], byte)
       ELSE LET reply == collect([i \in 1..ins.v |-> bytes[ins.a + i - 1]], <<>>, ins.v)
            IN readInto(Tail(insns), bytes,
                        [o \in DOMAIN buffer |->
                           IF o >= ins.n /\ o < ins.n + ins.v
                             THEN elementOr0(reply, o - ins.n + 1)
                             ELSE buffer[o]],
                        byte)

\* Flasher.write takes an image to write from the page foffset / pageSize
Flasher_write ==
  /\ job.st = "none"
  /\ \E start \in {0, erasePages}, image \in Images :
       job' = [st |-> "writing", start |-> start, image |-> image, done |-> 0]
  /\ UNCHANGED <<fam, canChipErase, canWriteBuffer, exclusiveWriter, faults, rd, caps,
                 engine, k, callv, options, rowv, probe, nvm, back, u8, io>>

\* one round of the page loop: loadBuffer(page of the image), then
\* writePage(pageOffset + pageNum): the auto-erase, then WP at ADDR
Flash_writePage ==
  /\ job.st = "writing" /\ job.done < Len(job.image)
  /\ LET page == job.start + job.done
         wiped == [p \in DOMAIN nvm |->
                     IF p \div erasePages \in autoErased(page) THEN "erased" ELSE nvm[p]]
     IN nvm' = [p \in DOMAIN nvm |->
                  IF p = wpPage(page) THEN job.image[job.done + 1] ELSE wiped[p]]
  /\ job' = [job EXCEPT !.done = @ + 1,
                        !.st = IF job.done + 1 = Len(job.image) THEN "written" ELSE @]
  /\ UNCHANGED <<fam, canChipErase, canWriteBuffer, exclusiveWriter, faults, rd, caps,
                 engine, k, callv, options, rowv, probe, back, u8, io>>

\* readPage(page, buf): read(addr + page * size, buf, size) into a new
\* Uint8Array(pageSize)
Flash_readPage ==
  /\ job.st = "written"
  /\ \E page \in DOMAIN nvm :
       back' = [page |-> page,
                buf |-> readInto(read(0, pageSize), PageBytes(nvm[page]),
                                 [o \in 0..(pageSize - 1) |-> 0], 0)]
  /\ UNCHANGED <<fam, canChipErase, canWriteBuffer, exclusiveWriter, faults, rd, caps,
                 engine, k, callv, options, rowv, probe, nvm, job, u8, io>>

NextRoundTrip == Flasher_write \/ Flash_writePage \/ Flash_readPage
SpecRoundTrip == Init /\ [][NextRoundTrip]_vars

(* ------------------------------ properties ----------------------------- *)
Idle == k = <<>> /\ result # "run"
Granule == erasePages * pageSize

\* C1: every command() reads ready, then dispatches, then reads ready again,
\* then reads the error flags; a dispatch directly follows a ready read that
\* reported ready, and a command() that returned or raised FlashCmdError has
\* done all four steps in that order.
C1_CommandOrder ==
  /\ \A i \in 1..Len(cmdTrace) :
       /\ cmdTrace[i] = "disp" => i = 2 /\ cmdTrace[1] = "rdy1"
       /\ cmdTrace[i] = "flags" => i = 4 /\ cmdTrace[3] = "rdy1" /\ cmdTrace[2] = "disp"
  /\ cmdSt.st \in {"done", "raised"} => cmdTrace = <<"rdy1", "disp", "rdy1", "flags">>
C1_Witness ==
  /\ cmdSt.st = "done" /\ result = "ok" /\ call.op = "erase" /\ Len(eraseLog) >= 2

\* C2: command() raises FlashCmdError exactly when the error bits of INTFLAG
\* are set after the completion wait, and when FlashCmdError reaches the
\* caller the write clearing those bits has been handed to the serial writer.
ErrorBits == IF fam = "D2x" THEN 2 ELSE 206
ClearFrame ==
  IF fam = "D2x"
    THEN Frame(Packet(Cmd("W", NVM_REG_BASE + D2x_NVM_REG_INTFLAG, 2)), 0)
    ELSE Frame(Packet(Cmd("O", NVM_REG_BASE + D5x_NVM_REG_INTFLAG, 206)), 0)
C2_ClearBeforeRaise ==
  /\ cmdSt.st = "raised" => BitAnd(cmdSt.flags, ErrorBits) # 0
  /\ cmdSt.st = "done" => BitAnd(cmdSt.flags, ErrorBits) = 0
  /\ result = "FlashCmdError" =>
       cmdSt.st = "raised" /\ \E i \in 1..Len(sent) : sent[i] = ClearFrame

\* C3: no sendCommand begins while an earlier one has not completed its write.
C3_OneOutstanding == ~overlapped

\* C4: after N consecutive successful writePage calls onBufferA has flipped N
\* times, so it has its value from before the run iff N is even.
C4_FlipsPerWritePage ==
  Idle => /\ hist.flips = hist.runN
          /\ (onBufferA = hist.startA) <=> (hist.runN % 2 = 0)
C4_Witness ==
  /\ Idle /\ call.op = "writePage" /\ result = "ok"
  /\ hist.runN = 2 /\ hist.flips = 2 /\ onBufferA = hist.startA

\* C5: between two applet runs there is exactly one toggle of onBufferA: no
\* second toggle before the run, and every run has had its one toggle.
C5_OneTogglePerRun == hist.sinceRun <= 1 /\ hist.atRun = 1

C7_InstalledOnce ==
  /\ [](/\ hist.uploads <= 1
        /\ hist.touched => hist.uploads = 1
        /\ installed => hist.uploads = 1)
  /\ [][installed => installed']_vars
C7_Witness ==
  /\ installed /\ call.op = "runv" /\ result = "ok" /\ Len(sent) = 2
  /\ hist.uploads = 1

\* C8: erase(off, size) raises FlashEraseError exactly when off is not a
\* multiple of the granule or off + size exceeds totalSize, and then nothing
\* has been sent; with valid arguments and a target that answers every read
\* without error flags it returns normally.
ValidErase == er.off % Granule = 0 /\ er.off + er.size <= totalSize
C8_EraseArguments ==
  /\ er.st = "raised" <=> (er.st # "none" /\ ~ValidErase /\ result # "run")
  /\ er.st = "raised" =>
       /\ result = "FlashEraseError" /\ ~er.acc
       /\ call.op = "erase" => sent = <<>> /\ ~regAccess
  /\ er.acc => ValidErase
  /\ (call.op = "erase" /\ Idle /\ ~fault /\ ValidErase) =>
       result = "ok" /\ er.st = "done"
C8_Witness ==
  /\ call.op = "erase" /\ er.st = "raised" /\ er.off % Granule = 0 /\ er.off > 0

\* C9: without chip-erase, eraseAll(offset) with an aligned offset issues one
\* erase command per granule of [offset, totalSize), ascending; no erase
\* command names a granule outside the range erase() was given.
Granules(from, to) == [i \in 1..((to - from) \div Granule) |-> from + (i - 1) * Granule]
C9_EraseAllGranules ==
  /\ (call.op = "eraseAll" /\ ~canChipErase /\ result = "ok") =>
       eraseLog = Granules(call.a, totalSize)
  /\ \A i \in 1..Len(eraseLog) :
       eraseLog[i] < er.off + er.size /\ eraseLog[i] + Granule > er.off

\* C10: with chip-erase advertised, eraseAll(0) hands the writer the one
\* frame X00000000#, touches no NVM register and issues no row or block
\* erase; it returns normally iff the reply begins with 'X' and raises
\* SamBAError otherwise.
C10_ChipErase ==
  (call.op = "eraseAll" /\ call.a = 0 /\ canChipErase) =>
    /\ ~regAccess /\ eraseLog = <<>>
    /\ Idle =>
         /\ sent = <<Frame(<<"X", "0", "0", "0", "0", "0", "0", "0", "0", "#">>, 0)>>
         /\ result = "ok" <=> tmp = XReply
         /\ result # "ok" => result = "SamBAError"
C10_Witness ==
  /\ call.op = "eraseAll" /\ call.a = 0 /\ canChipErase /\ result = "ok"
  /\ Len(sent) = 1

\* C11: a writePage takes its steps in the order control-register update,
\* auto-erase if due, page-buffer clear to completion, dst and src cells,
\* toggle, ready-wait, applet run, ADDR write, write-page command; a call
\* that returns has taken all of them.
IsPrefix(s, t) == Len(s) <= Len(t) /\ s = SubSeq(t, 1, Len(s))
WritePageSteps(auto) ==
  <<"ctrl">>
    \o (IF auto THEN <<"erase">> ELSE <<>>)
    \o <<"pbc", "done", "dst", "src", "toggle", "ready", "run", "addr", "wp", "done">>
\* the auto-erase is due at the first page of a granule while eraseAuto is
\* set (the caller may change eraseAuto once the call is over)
C11_WritePageOrder ==
  call.op = "writePage" =>
    \E auto \in BOOLEAN :
      /\ auto => call.a % erasePages = 0
      /\ result = "run" => (auto <=> (eraseAuto /\ call.a % erasePages = 0))
      /\ IsPrefix(steps, WritePageSteps(auto))
      /\ result = "ok" => steps = WritePageSteps(auto)
C11_Witness ==
  /\ call.op = "writePage" /\ result = "ok" /\ fam = "D5x" /\ Len(steps) = 12

\* C12: the value writePage leaves in ADDR is the page's byte address
\* halved on D2x and the byte address itself on D5x, and the address of
\* every erase command is that of a granule.
C12_AddrConvention ==
  /\ (call.op = "writePage" /\ result = "ok") =>
       target.addr = (IF fam = "D2x" THEN (call.a * pageSize) \div 2 ELSE call.a * pageSize)
  /\ \A i \in 1..Len(eraseLog) : eraseLog[i] % Granule = 0

\* C13: on D5x the two byte writes of a 16-bit register write go to the
\* register address and to the register address + 1, and of the NVM
\* registers only ADDR is accessed with a word command.
C13_ByteAccesses ==
  fam = "D5x" =>
    /\ Len(target.bytes) = 2 => target.bytes[2].a = target.bytes[1].a + 1
    /\ (k # <<>> /\ Head(k).i \in {"readWord", "writeWord"} /\ IsReg(Head(k).a)) =>
         Head(k).a = AddrReg

\* C14: the payload that follows an S command of loadBuffer has exactly
\* the number of bytes the command declares.
C14_LoadPayload == target.load # 0 => target.n = target.size

(* ------------------------- writeOptions' properties -------------------- *)
\* writeOptions is running: the options keep the values the setters gave
InFlush == call.op = "writeOptions" /\ result = "run"
\* writeOptions has executed its last statement
FlushDone == InFlush /\ k = <<>>
Taken(step) == Cardinality({i \in 1..Len(steps) : steps[i] = step})
ImgLocked(img, region) == BitAnd(img[lockOffset + region \div 8], Pow2(region % 8)) = 0
\* an option is dirty and differs from what the device held at the start
BorChanges == bor.dirty /\ bor.value # getBor(rowIn[borOffset])
BodChanges == bod.dirty /\ bod.value # getBod(rowIn[bodOffset])
LockChanges ==
  /\ regions.dirty
  /\ \E i \in 1..Len(regions.value) : regions.value[i] # ImgLocked(rowIn, i - 1)

\* C15: a writeOptions with nothing to change (no option dirty, or every
\* dirty option equal to the device's value) dispatches neither the user-row
\* erase command nor a user-row write command.
C15_NoRowWriteWhenClean ==
  (InFlush /\ ~BorChanges /\ ~BodChanges /\ ~LockChanges) =>
    Taken("rowErase") = 0 /\ Taken("rowWrite") = 0

\* C16: when writeOptions has dispatched the user-row erase, its image was
\* read from the device in this call and differs from the device's row only
\* in the bits of the options that change; once it has finished, the bytes
\* that hold no option are in the device as they were.
OptionBits(o) ==
  BitOr(BitOr(IF BorChanges /\ o = borOffset
                THEN (IF fam = "D2x" THEN NVM_UR_BOD33_RESET_MASK ELSE NVM_UP_BOD33_RESET_MASK)
                ELSE 0,
              IF BodChanges /\ o = bodOffset
                THEN (IF fam = "D2x" THEN NVM_UR_BOD33_ENABLE_MASK ELSE NVM_UP_BOD33_DISABLE_MASK)
                ELSE 0),
        IF LockChanges /\ o >= lockOffset /\ o < lockOffset + lockRegions \div 8 THEN 255 ELSE 0)
C16_RowReadModifyWrite ==
  /\ (InFlush /\ Taken("rowErase") > 0) =>
       /\ rowRead
       /\ \A o \in DOMAIN userRow :
            ClearMask(userRow[o], OptionBits(o)) = ClearMask(rowIn[o], OptionBits(o))
  /\ FlushDone => row[OtherOffset] = rowIn[OtherOffset]

\* C17: when BOR, BOD and the lock regions are all dirty and all differ from
\* the device, the image writeOptions erases the row for carries all three.
C17_AllDirtyFlushed ==
  (InFlush /\ BorChanges /\ BodChanges /\ LockChanges /\ Taken("rowErase") > 0) =>
    /\ getBor(userRow[borOffset]) = bor.value
    /\ getBod(userRow[bodOffset]) = bod.value
    /\ \A i \in 1..Len(regions.value) : ImgLocked(userRow, i - 1) = regions.value[i]

\* C18: when the lock regions change, lock bit i of the written image is 0
\* iff v[i] for every region of v, and the bits of the other regions are the
\* device's.
C18_LockBits ==
  (InFlush /\ LockChanges /\ Taken("rowErase") > 0) =>
    \A i \in 0..(lockRegions - 1) :
      IF i < Len(regions.value)
        THEN ImgLocked(userRow, i) = regions.value[i + 1]
        ELSE ImgLocked(userRow, i) = ImgLocked(rowIn, i)

\* C19: on D5x, setBod(false) alone with BOD enabled: writeOptions reads the
\* page, sets bit 0 of byte 0, erases the page once and writes one quad-word
\* for every 16 bytes of the page.
C19_D5xBodOff ==
  (fam = "D5x" /\ FlushDone /\ BodChanges /\ ~bod.value /\ ~bor.dirty /\ ~regions.dirty) =>
    /\ rowRead /\ BitAnd(userRow[0], 1) = 1
    /\ Taken("rowErase") = 1
    /\ Taken("rowWrite") = pageSize \div 16

\* C20: readByte, readWord and read raise whenever fewer bytes than the
\* response size had been collected when readBuffer ended, and return a
\* value only from a complete response.
C20_NoPartialReads ==
  rd.st \in {"returned", "raised"} => (rd.st = "raised" <=> Len(rd.reply) < rd.size)

\* C21: when the target answers readWord with the 4 bytes b0 b1 b2 b3,
\* readWord returns b0 + 2^8*b1 + 2^16*b2 + 2^24*b3, also for words that
\* hold 0x00 bytes and for words with bit 31 set.
Sent == rd.reply \o rd.inbox
C21_LittleEndianWord ==
  (rd.op = "readWord" /\ rd.st = "returned" /\ Len(Sent) = 4) =>
    Num(rd.value[1]) = <<Sent[4] * 256 + Sent[3], Sent[2] * 256 + Sent[1]>>

\* C22: when read(addr, buffer, size) returns, buffer[k] holds the byte of
\* target address addr + k for every k < size, however many R commands the
\* read took; here the read is the one of the user row, whose bytes
\* writeOptions goes on to modify.
C22_ReadFillsBuffer ==
  (call.op = "writeOptions" /\ k # <<>> /\ Head(k).i = "setBits" /\ rowRead) =>
    \A o \in DOMAIN userRow : userRow[o] = RowAt(row, o)

\* C23: with readBufferSize 0, a read whose size is over 32 and a power of
\* two sends one readByte for the first byte and then one R command for the
\* size - 1 bytes at addr + 1; a read of any other size sends one R command
\* for the whole size.
C23_PowerOfTwoRead ==
  (call.op = "read" /\ result = "ok" /\ readBufferSize = 0) =>
    steps = IF call.v \in {64, 128}
              THEN <<cmdString(Cmd("o", call.a, 0)),
                     cmdString(Cmd("R", call.a + 1, call.v - 1))>>
              ELSE <<cmdString(Cmd("R", call.a, call.v))>>
C23_Witness ==
  /\ call.op = "read" /\ result = "ok" /\ readBufferSize = 0 /\ call.v = 64
  /\ Len(steps) = 2

\* C24: after connecting, each of the four flags is true iff its letter
\* stands between '[Arduino:' and the next ']' of the version banner, and
\* readBufferSize is 63; a banner without '[Arduino:' leaves the four flags
\* false and readBufferSize 0.
Bracket == indexOf(banner, Marker, 1)
Between(c) ==
  \E i \in (Bracket + 1)..(indexOf(banner, "]", Bracket) - 1) : banner[i] = c
C24_BannerFlags ==
  ~closed =>
    IF Bracket = 0
      THEN /\ ~canChipErase /\ ~canWriteBuffer /\ ~canChecksumBuffer /\ ~canProtect
           /\ readBufferSize = 0
    ELSE indexOf(banner, "]", Bracket) # 0 =>
           /\ canChipErase = Between("X")
           /\ canWriteBuffer = Between("Y")
           /\ canChecksumBuffer = Between("Z")
           /\ canProtect = Between("P")
           /\ readBufferSize = 63

\* C25: if the word at 0x0 has the top byte 0xEA, create reads CHIPID at
\* 0xFFFFF240 next, and reads neither the CPUID register nor the DSU or
\* Cortex CHIPID registers.
Seen(a) == \E i \in 1..Len(dev.reads) : dev.reads[i] = a
C25_Arm7Probe ==
  (mem[A_RESET][4] = 234 /\ Len(dev.reads) >= 2) =>
    /\ dev.reads[2] = A_CHIPID7
    /\ \A a \in {A_CPUID, A_DSU, A_CHIPID, A_CHIPID2} : ~Seen(a)

\* C26: when the masked CPUID is 0xC240, create reads the word at 0x4; if
\* its upper 12 bits are 0x800 it probes CHIPID and never reads the DSU
\* register, otherwise it reads the DSU register and never CHIPID.
Upper12(word) == word[4] * 16 + word[3] \div 16
C26_CortexM4Probe ==
  (dev.cpuId = 49728 /\ dev.pc \in {"done", "unsupported"}) =>
    /\ Seen(A_VEC4)
    /\ IF Upper12(mem[A_VEC4]) = 2048
         THEN Seen(A_CHIPID) /\ ~Seen(A_DSU)
         ELSE Seen(A_DSU) /\ ~Seen(A_CHIPID) /\ ~Seen(A_CHIPID2)

\* C27: a target whose word at 0x0 is no ARM7 branch, whose CPUID is
\* 0x410CC600 and whose DSU word is 0x10010000 is read at 0x0, 0xE000ED00
\* and 0x41002018, at no CHIPID register, and gets a D2x driver with 4096
\* pages of 64 bytes, user 0x20004000, stack 0x20008000, family SAMD21.
C27_Samd21J18 ==
  (/\ mem[A_RESET][4] # 234 /\ mem[A_CPUID] = <<0, 198, 12, 65>>
   /\ mem[A_DSU] = <<0, 0, 1, 16>> /\ dev.pc \in {"done", "unsupported"}) =>
    /\ SubSeq(dev.reads, 1, 3) = <<A_RESET, A_CPUID, A_DSU>>
    /\ \A a \in {A_CHIPID7, A_CHIPID, A_CHIPID2} : ~Seen(a)
    /\ dev.pc = "done"
    /\ dev.flash = [driver |-> "D2x", pages |-> 4096, size |-> 64, user |-> 536887296,
                    stack |-> 536903680]
    /\ dev.family = "SAMD21"

\* C28: with chipId 0, create ends with a driver for every device ID of the
\* table, a D2x driver for SAMD21, SAMR21 and SAML21 and a D5x driver for
\* SAMD51, SAME51, SAME53 and SAME54, with the entry's geometry; it raises
\* DeviceUnsupportedError only for an ID that no entry has.
Masked == and32(dev.deviceId, 65535, 255)
D5xFamilies == {"SAMD51", "SAME51", "SAME53", "SAME54"}
C28_EveryTableEntry ==
  (dev.pc \in {"done", "unsupported"} /\ and32(dev.chipId, 32767, 65504) = 0) =>
    /\ dev.pc = "unsupported" <=> Masked \notin DeviceIds
    /\ \A e \in DeviceTable :
         Masked \in e.ids =>
           /\ dev.flash = [driver |-> IF e.family \in D5xFamilies THEN "D5x" ELSE "D2x",
                           pages |-> e.pages, size |-> e.size, user |-> e.user,
                           stack |-> e.stack]
           /\ dev.family = e.family


\* C29: with auto-erase on, once an image has been written page by page
\* (loadBuffer, then writePage), readPage returns for every page of the image
\* exactly the bytes of the image, its last page zero-padded, and for a page
\* outside the image, in a granule no page of the image lies in, the content
\* the page had before
InImage(page) == page >= job.start /\ page < job.start + Len(job.image)
ImageGranules == {p \div erasePages : p \in {q \in DOMAIN nvm : InImage(q)}}
C29_RoundTrip ==
  (job.st = "written" /\ back.buf # <<>>) =>
    IF InImage(back.page)
      THEN back.buf = PageBytes(job.image[back.page - job.start + 1])
      ELSE back.page \div erasePages \notin ImageGranules
             => back.buf = PageBytes("old")

\* C30: a writeBuffer(dstRelative, size) with auto-erase on enters erase only
\* when dstRelative is a multiple of the erase granule; when it is not, no
\* erase is entered, no FlashEraseError is raised, and a call that returns
\* has sent the buffer-write from the active page buffer to dstRelative
C30_WriteBufferErase ==
  (call.op = "writeBuffer" /\ eraseAuto /\ result # "run" /\ call.a % Granule # 0) =>
    /\ er.st = "none"
    /\ eraseLog = <<>>
    /\ result # "FlashEraseError"
    /\ result = "ok" =>
         steps = <<cmdString(Cmd("Y0", activeBuffer, 0)),
                   cmdString(Cmd("Y", call.a, call.v))>>

\* C31: a writePage(page) with page >= numPages ends with FlashPageError and
\* has sent nothing, touched no register, taken no step and erased nothing;
\* a writePage(page) with page < numPages and auto-erase on that has run to
\* its end has erased the granule of page, and no other, if page is the first
\* page of its granule, and has erased nothing otherwise
C31_PageCheckAndAutoErase ==
  /\ (call.op = "writePage" /\ call.a >= numPages /\ result # "run") =>
       /\ result = "FlashPageError"
       /\ sent = <<>> /\ steps = <<>> /\ eraseLog = <<>> /\ ~regAccess
  /\ (call.op = "writePage" /\ call.a < numPages /\ eraseAuto
        /\ result = "run" /\ k = <<>>) =>
       eraseLog = (IF call.a % erasePages = 0 THEN <<call.a * pageSize>> ELSE <<>>)

\* C32: the two page buffers are 4-byte aligned, lie after the applet, do not
\* overlap and end inside [user, user + appletSize + 2 * pageSize); every
\* upload to a page buffer, those of Flasher.write included, stays inside
\* that region and below the applet stack address
RegionEnd == UserAddr + applet_code_length + 2 * pageSize
C32_OwnedRegion ==
  /\ pageBufferA % 4 = 0 /\ pageBufferB % 4 = 0
  /\ pageBufferA >= UserAddr + applet_code_length
  /\ pageBufferB >= pageBufferA + pageSize
  /\ pageBufferB + pageSize <= RegionEnd
  /\ target.size > 0 =>
       /\ target.load >= UserAddr
       /\ target.load + target.size <= RegionEnd
       /\ target.load + target.size <= StackAddr

\* C33: every call of the engine that has begun ends, by returning or by
\* raising, whatever the target answers to the register reads
C33_CallsEnd == (result = "run") ~> (result # "run")

\* C34: view() gives the bytes from the read cursor up to the write cursor,
\* in order: there are writeOffset - readOffset of them and, when there is
\* one, the first is the byte the next shift() returns
C34_ViewIsContent ==
  LET v == Uint8Buffer_view IN
  /\ v.error = "none"
  /\ Len(v.bytes) = u8.writeOffset - u8.readOffset
  /\ v.bytes = [i \in 1..(u8.writeOffset - u8.readOffset) |-> u8.view[u8.readOffset + i]]
  /\ v.bytes # <<>> => v.bytes[1] = nextShift

\* C35: every byte of the response sendCommand returns was sent by the target
\* in reply to the command the response is returned for
C35_OwnReplyOnly ==
  \A i \in 1..Len(io.response) : io.response[i].cmd = io.cmd

\* C36: when writePage has had the applet run, the cells of the applet held
\* at the go command: dst = page * pageSize, src = the page buffer that was
\* active when writePage was called, words = pageSize / 4, stack = the stack
\* address of the device; the go command went to the stack cell and the
\* command sent before it wrote start + 1 to the reset cell
IsPrefix36(p, q) == Len(p) <= Len(q) /\ SubSeq(q, 1, Len(p)) = p
NvmCommands == {"pbc", "wp", "er", "rowErase", "rowWrite", "ssb", "cmd"}

Wired(letter) == \E i \in 1..Len(sent) : sent[i].txt # <<>> /\ sent[i].txt[1] = letter
ExtendedCalls == {"chipErase", "superWriteBuffer", "checksumBuffer"}
Advertised(op) ==
  CASE op = "chipErase" -> canChipErase
    [] op = "superWriteBuffer" -> canWriteBuffer
    [] op = "checksumBuffer" -> canChecksumBuffer

\* C38: an extended command reaches the wire only if the banner advertised it:
\* X only with canChipErase, Y only with canWriteBuffer, Z only with
\* canChecksumBuffer; a call whose capability was not advertised raises and
\* nothing was written.
C38_OnlyAdvertised ==
  /\ Wired("X") => canChipErase
  /\ Wired("Y") => canWriteBuffer
  /\ Wired("Z") => canChecksumBuffer
  /\ (call.op \in ExtendedCalls /\ ~Advertised(call.op) /\ result # "run") =>
       (result = "SamBAError" /\ sent = <<>>)


\* C39: a Flasher.write that passed its validation hands writePage only page
\* indexes below numPages and writeBuffer only ranges that end inside the
\* flash, and does not end with FlashPageError or FlashEraseError.
C39_AcceptedWriteFits ==
  call.op = "write" =>
    /\ result \notin {"FlashPageError", "FlashEraseError"}
    /\ \A i \in 1..Len(k) :
         k[i].i = "call" =>
           /\ k[i].s = "writePage" => k[i].a < numPages
           /\ k[i].s = "writeBuffer" => k[i].a + k[i].v <= totalSize


\* C40: on D2x the two brown-out options do not touch each other: when a flush
\* of the options ends in which only BOR was dirty and differed from the
\* device, getBod reads what it read before the flush and getBor reads the
\* value set; with only BOD dirty, getBor reads what it read before and
\* getBod reads the value set.
C40_BodBorIndependent ==
  (FlushDone /\ fam = "D2x" /\ ~regions.dirty /\ ~security.dirty) =>
    /\ (BorChanges /\ ~bod.dirty) =>
         /\ getBod(row[bodOffset]) = getBod(rowIn[bodOffset])
         /\ getBor(row[borOffset]) = bor.value
    /\ (BodChanges /\ ~bor.dirty) =>
         /\ getBor(row[borOffset]) = getBor(rowIn[borOffset])
         /\ getBod(row[bodOffset]) = bod.value

=============================================================================
